---- MODULE Spec2Model ----
(***************************************************************************)
(* Helm voyage store: the slate, the artifact (blob) store, the logbook    *)
(* and the seal transaction of one voyage database, as implemented in      *)
(* src/src/storage/slate.rs and src/src/storage/logbook.rs.                *)
(*                                                                         *)
(* A table is a set of rows; a row of a rowid table carries its rowid.     *)
(* slate.rs names the artifact table `blobs` (column blob_hash) and        *)
(* logbook.rs names it `artifacts` (column artifact_hash): one table.      *)
(***************************************************************************)
EXTENDS Integers, Sequences, FiniteSets, TLC

VARIABLES
    artifacts,             \* table artifacts/blobs: rows [hash, data]
    slate,                 \* table slate: rows [rowid, target, artifact_hash, observed_at]
    logbook,               \* table logbook: rows [id, recorded_at, identity, action, summary, role, method]
    sqlite_sequence,       \* AUTOINCREMENT high-water mark of logbook.id
    bearing_observations,  \* rows [rowid, logbook_id, target, artifact_hash, observed_at]
    voyage,                \* table voyage: rows [id, intent, created_at, status, ended_at, ended_status]
    last,                  \* the last storage call: its name, inputs and result
    taken,                 \* history: observations now on the slate, in observing order
    workload,              \* what the callers of this run observe and how often they seal
    others,                \* the other files of the storage root: file stem -> its tables, or NoFile
    world                  \* the mutations perform has made to the collaborative state, counted

vars == <<artifacts, slate, logbook, sqlite_sequence, bearing_observations, voyage, last,
          taken, workload, others, world>>

(***************************************************************************)
(* Bounds                                                                  *)
(***************************************************************************)
MaxReplaced == 1   \* slate rowids go up to the number of targets plus this
MaxEntries == 1    \* seal-centred runs: no seal once the logbook id sequence reached this
MaxLogEntries == 2 \* logbook-centred runs: the same
MaxTime == 2       \* timestamps are 1..MaxTime
MaxPaths == 2      \* a bearing builder takes up to this many scope and focus paths
MaxInput == 2      \* the input line of the bearing screen holds up to this many characters

Times == 1..MaxTime

(***************************************************************************)
(* Model values: targets, payloads, steers                                 *)
(***************************************************************************)
\* model/observe.rs: Observe variants (two issues that differ in one field only)
Observe ==
    { [kind |-> "GitHubIssue", number |-> 1, focus |-> <<"summary">>],
      [kind |-> "GitHubIssue", number |-> 1, focus |-> <<"comments">>],
      [kind |-> "RustProject", root |-> "src/"] }

\* model/payload.rs: Payload variants
Payload ==
    { [kind |-> "DirectoryTree", listings |-> <<>>],
      [kind |-> "Hold", hash |-> "h0"] }

Observation == [target : Observe, payload : Payload, observed_at : Times]

NumStr == <<"1", "2", "3", "4", "5", "6", "7", "8", "9">>

\* serde_json::to_string(&observation.target): internally tagged ("kind"),
\* camelCase variant names, fields in declaration order.
TargetJson(t) ==
    IF t.kind = "GitHubIssue"
    THEN <<"kind", "gitHubIssue", "number", NumStr[t.number], "focus", "[">>
            \o t.focus \o <<"]">>
    ELSE <<"kind", "rustProject", "root", t.root>>

\* serde_json::to_vec(&observation.payload)
PayloadJson(p) ==
    IF p.kind = "DirectoryTree"
    THEN <<"kind", "directoryTree", "listings", "[">> \o p.listings \o <<"]">>
    ELSE <<"kind", "hold", "hash", p.hash>>

\* hex::encode(Sha256::digest(bytes)): a collision-free digest of the bytes
Sha256Hex(bytes) == [sha256 |-> bytes]

\* zstd::encode_all(bytes, 3) and zstd::decode_all
ZstdEncode(bytes) == [zstd |-> bytes, level |-> 3]
ZstdDecode(blob) == blob.zstd

\* jiff::Timestamp::to_string
TimestampToString(ts) == <<"1970-01-01T00:00:0", NumStr[ts], "Z">>

(***************************************************************************)
(* SQL helpers                                                             *)
(***************************************************************************)
Max(S) == CHOOSE m \in S : \A n \in S : n <= m

\* rowid the engine gives a new row of a rowid table: one past the largest
NewRowid(table) ==
    IF table = {} THEN 1 ELSE Max({r.rowid : r \in table}) + 1

\* ... ORDER BY rowid
RECURSIVE OrderByRowid(_)
OrderByRowid(rows) ==
    IF rows = {} THEN <<>>
    ELSE LET r == CHOOSE x \in rows : \A y \in rows : x.rowid <= y.rowid
         IN  <<r>> \o OrderByRowid(rows \ {r})

\* ... ORDER BY id
RECURSIVE OrderById(_)
OrderById(rows) ==
    IF rows = {} THEN <<>>
    ELSE LET r == CHOOSE x \in rows : \A y \in rows : x.id <= y.id
         IN  <<r>> \o OrderById(rows \ {r})

\* the committed database of the voyage, as one value
Database ==
    [artifacts |-> artifacts, slate |-> slate, logbook |-> logbook,
     sqlite_sequence |-> sqlite_sequence,
     bearing_observations |-> bearing_observations, voyage |-> voyage]

(***************************************************************************)
(* storage/slate.rs                                                        *)
(***************************************************************************)
\* the hash taken over the whole observation
ObservationHash(observation) ==
    Sha256Hex(TargetJson(observation.target) \o PayloadJson(observation.payload)
                \o TimestampToString(observation.observed_at))

\* append_slate, lines 23-24: the content hash of the observation's payload
PayloadHash(observation) == Sha256Hex(PayloadJson(observation.payload))

\* INSERT OR IGNORE INTO blobs (hash, data): hash is the key
InsertOrIgnoreBlob(table, hash, data) ==
    IF \E r \in table : r.hash = hash
    THEN table
    ELSE table \cup {[hash |-> hash, data |-> data]}

\* a plain INSERT into a slate whose target is no key
InsertSlate(table, target_json, hash, observed_at) ==
    table \cup {[rowid |-> NewRowid(table), target |-> target_json,
                 artifact_hash |-> hash, observed_at |-> observed_at]}

\* an upsert that updates the row in conflict where it is (it keeps its rowid)
UpdateOrInsertSlate(table, target_json, hash, observed_at) ==
    IF \E r \in table : r.target = target_json
    THEN {IF r.target = target_json
          THEN [r EXCEPT !.artifact_hash = hash, !.observed_at = observed_at]
          ELSE r : r \in table}
    ELSE table \cup {[rowid |-> NewRowid(table), target |-> target_json,
                      artifact_hash |-> hash, observed_at |-> observed_at]}

\* INSERT OR REPLACE INTO slate (target, blob_hash, observed_at): target is
\* the key; the row in conflict is deleted and the new row gets a new rowid
InsertOrReplaceSlate(table, target_json, hash, observed_at) ==
    {r \in table : r.target # target_json}
        \cup {[rowid |-> NewRowid(table), target |-> target_json,
               artifact_hash |-> hash, observed_at |-> observed_at]}

\* an append that deletes the blob of the observation it replaces
append_slate_and_drop_replaced(db, observation, fail) ==
    IF fail # "none"
    THEN [db |-> db, ok |-> FALSE]
    ELSE LET hash == Sha256Hex(PayloadJson(observation.payload))
             target_json == TargetJson(observation.target)
             replaced == {r.artifact_hash : r \in {x \in db.slate : x.target = target_json}}
         IN  [db |-> [db EXCEPT
                        !.artifacts = {a \in @ : a.hash \notin replaced}
                            \cup {[hash |-> hash,
                                   data |-> ZstdEncode(PayloadJson(observation.payload))]},
                        !.slate = {r \in @ : r.target # target_json}
                            \cup {[rowid |-> NewRowid(@), target |-> target_json,
                                   artifact_hash |-> hash,
                                   observed_at |-> TimestampToString(observation.observed_at)]}],
              ok |-> TRUE]

AppendFailures == {"none", "open", "encode_payload", "insert_blob", "encode_target", "upsert"}

\* an append that refuses a voyage stored as ended
append_slate_refuses_ended(db, observation, fail) ==
    IF fail \in {"open", "encode_payload", "insert_blob"}
       \/ \E v \in db.voyage : v.status = "ended"
    THEN [db |-> db, ok |-> FALSE]
    ELSE LET hash == PayloadHash(observation)
             compressed == ZstdEncode(PayloadJson(observation.payload))
             db1 == [db EXCEPT !.artifacts = InsertOrIgnoreBlob(@, hash, compressed)]
         IN  IF fail \in {"encode_target", "upsert"}
             THEN [db |-> db1, ok |-> FALSE]
             ELSE [db |-> [db1 EXCEPT !.slate =
                              InsertOrReplaceSlate(@, TargetJson(observation.target), hash,
                                                   TimestampToString(observation.observed_at))],
                   ok |-> TRUE]

\* Storage::append_slate: each statement commits on its own (no transaction),
\* so an error after the blob insert leaves the blob stored.
append_slate(db, observation, fail) ==
    IF fail \in {"open", "encode_payload", "insert_blob"}
    THEN [db |-> db, ok |-> FALSE]
    ELSE LET hash == PayloadHash(observation)
             compressed == ZstdEncode(PayloadJson(observation.payload))
             db1 == [db EXCEPT !.artifacts = InsertOrIgnoreBlob(@, hash, compressed)]
         IN  IF fail \in {"encode_target", "upsert"}
             THEN [db |-> db1, ok |-> FALSE]
             ELSE [db |-> [db1 EXCEPT !.slate =
                              InsertOrReplaceSlate(@, TargetJson(observation.target), hash,
                                                   TimestampToString(observation.observed_at))],
                   ok |-> TRUE]

ClearFailures == {"none", "open", "delete"}

\* a clear that deletes the blobs as well
clear_slate_and_blobs(db, fail) ==
    IF fail # "none"
    THEN [db |-> db, ok |-> FALSE]
    ELSE [db |-> [db EXCEPT !.slate = {}, !.artifacts = {}], ok |-> TRUE]

\* a clear that deletes the bearing-observations as well
clear_slate_and_bearings(db, fail) ==
    IF fail # "none"
    THEN [db |-> db, ok |-> FALSE]
    ELSE [db |-> [db EXCEPT !.slate = {}, !.bearing_observations = {}], ok |-> TRUE]

\* a clear that deletes the oldest slate row only
clear_slate_oldest_row(db, fail) ==
    IF fail # "none"
    THEN [db |-> db, ok |-> FALSE]
    ELSE [db |-> [db EXCEPT !.slate = {r \in @ : \E x \in @ : x.rowid < r.rowid}],
          ok |-> TRUE]

\* Storage::clear_slate: DELETE FROM slate
clear_slate(db, fail) ==
    IF fail # "none"
    THEN [db |-> db, ok |-> FALSE]
    ELSE [db |-> [db EXCEPT !.slate = {}], ok |-> TRUE]

EraseFailures == {"none", "open", "encode_target", "delete"}

\* an erase that reports rows >= 0
erase_slate_always_true(db, target, fail) ==
    IF fail # "none"
    THEN [db |-> db, ok |-> FALSE, ret |-> FALSE]
    ELSE [db |-> [db EXCEPT !.slate = {r \in @ : r.target # TargetJson(target)}],
          ok |-> TRUE, ret |-> TRUE]

\* Storage::erase_slate: DELETE FROM slate WHERE target = ?1; Ok(rows > 0)
erase_slate(db, target, fail) ==
    IF fail # "none"
    THEN [db |-> db, ok |-> FALSE, ret |-> FALSE]
    ELSE LET target_json == TargetJson(target)
             deleted == {r \in db.slate : r.target = target_json}
         IN  [db |-> [db EXCEPT !.slate = @ \ deleted], ok |-> TRUE,
              ret |-> Cardinality(deleted) > 0]

(***************************************************************************)
(* storage/logbook.rs                                                      *)
(***************************************************************************)
\* model/steer.rs: the steers a caller may record
Steer ==
    { [kind |-> "Comment", number |-> 4, body |-> "plan", target |-> "Issue"] }

Statuses == {"halfway"}

\* the summary, identity, role and method passed with a steer and with a log
SteerArgs == [summary |-> "ready to steer", identity |-> "alice",
              role |-> "coder", method |-> "human"]
LogArgs == [summary |-> "refactoring", identity |-> "bob",
            role |-> "reviewer", method |-> "claude"]

\* serde_json::to_string(&EntryKind::Steer(steer.clone()))
SteerActionJson(steer) ==
    IF steer.kind = "Comment"
    THEN <<"steer", "kind", "comment", "number", NumStr[steer.number],
           "body", steer.body, "target", steer.target>>
    ELSE <<"steer", "kind", "mergePullRequest">>

\* serde_json::to_string(&EntryKind::Log(status.to_string()))
LogActionJson(status) == <<"log", status>>

\* logbook.id is INTEGER PRIMARY KEY AUTOINCREMENT: one past the largest id
\* ever used, which the engine keeps in sqlite_sequence
NextLogbookId(db) ==
    Max({db.sqlite_sequence} \cup {r.id : r \in db.logbook}) + 1

\* record_entry, lines 127-138: SELECT target, artifact_hash, observed_at
\* FROM slate ORDER BY rowid
SelectSlateRows(db) ==
    LET ordered == OrderByRowid(db.slate)
    IN  [i \in 1..Len(ordered) |->
            <<ordered[i].target, ordered[i].artifact_hash, ordered[i].observed_at>>]

\* an INSERT INTO logbook that binds the role and the method to each other's
\* column
InsertLogbookSwapped(db, now, identity, action_json, summary, role, method) ==
    LET id == NextLogbookId(db)
    IN  [db EXCEPT
           !.logbook = @ \cup {[id |-> id, recorded_at |-> now, identity |-> identity,
                                action |-> action_json, summary |-> summary,
                                role |-> method, method |-> role]},
           !.sqlite_sequence = id]

\* record_entry, lines 140-146: INSERT INTO logbook; last_insert_rowid()
InsertLogbook(db, now, identity, action_json, summary, role, method) ==
    LET id == NextLogbookId(db)
    IN  [db EXCEPT
           !.logbook = @ \cup {[id |-> id, recorded_at |-> now, identity |-> identity,
                                action |-> action_json, summary |-> summary,
                                role |-> role, method |-> method]},
           !.sqlite_sequence = id]

\* record_entry, lines 149-154: INSERT INTO bearing_observations
InsertBearingObservation(db, logbook_id, row) ==
    [db EXCEPT !.bearing_observations =
        @ \cup {[rowid |-> NewRowid(@), logbook_id |-> logbook_id, target |-> row[1],
                 artifact_hash |-> row[2], observed_at |-> row[3]]}]

\* the loop started one row late
RECURSIVE CopySlateRowsFromSecond(_, _, _, _)
CopySlateRowsFromSecond(db, logbook_id, slate_rows, n) ==
    IF n <= 1 THEN db
    ELSE [CopySlateRowsFromSecond(db, logbook_id, slate_rows, n - 1) EXCEPT
            !.bearing_observations =
                @ \cup {[rowid |-> NewRowid(@), logbook_id |-> logbook_id,
                         target |-> slate_rows[n][1], artifact_hash |-> slate_rows[n][2],
                         observed_at |-> slate_rows[n][3]]}]

\* record_entry, lines 148-155: the loop over the first n slate rows
RECURSIVE CopySlateRows(_, _, _, _)
CopySlateRows(db, logbook_id, slate_rows, n) ==
    IF n = 0 THEN db
    ELSE InsertBearingObservation(CopySlateRows(db, logbook_id, slate_rows, n - 1),
                                  logbook_id, slate_rows[n])

\* a seal that leaves the slate as it was
KeepSlate(db) == db

\* record_entry, line 157: DELETE FROM slate
DeleteSlate(db) == [db EXCEPT !.slate = {}]

\* where a seal can fail: opening the database, beginning the transaction,
\* reading the slate, inserting the logbook row, inserting the k-th
\* bearing-observation, deleting the slate rows, the commit
SealSteps == {"none", "open", "begin", "select", "insert_logbook",
              "insert_observation", "delete", "commit"}
SealFailures(db) ==
    [step : SealSteps \ {"insert_observation"}, k : {0}]
        \cup [step : {"insert_observation"}, k : 1..Cardinality(db.slate)]

\* record_entry, lines 124-158: the statements run inside the transaction
\* up to the failing one; tx is what the transaction holds when it ends
Transaction(db, action_json, summary, identity, role, method, now, fail) ==
    IF fail.step \in {"open", "begin", "select"}
    THEN [tx |-> db, ok |-> FALSE]
    ELSE LET slate_rows == SelectSlateRows(db)
         IN  IF fail.step = "insert_logbook"
             THEN [tx |-> db, ok |-> FALSE]
             ELSE LET tx1 == InsertLogbook(db, TimestampToString(now), identity,
                                           action_json, summary, role, method)
                      logbook_id == tx1.sqlite_sequence
                  IN  IF fail.step = "insert_observation"
                      THEN [tx |-> CopySlateRows(tx1, logbook_id, slate_rows, fail.k - 1),
                            ok |-> FALSE]
                      ELSE LET tx2 == CopySlateRows(tx1, logbook_id, slate_rows,
                                                    Len(slate_rows))
                           IN  IF fail.step = "delete"
                               THEN [tx |-> tx2, ok |-> FALSE]
                               ELSE [tx |-> DeleteSlate(tx2), ok |-> fail.step = "none"]

\* a dropped transaction that keeps what it wrote
DropTransactionCommits(db, tx) == tx

\* an error return (`?`) drops the transaction without commit: rusqlite rolls
\* it back, the database is what it was at conn.transaction()
DropTransaction(db, tx) == db

\* Storage::record_entry
record_entry(db, action_json, summary, identity, role, method, now, fail) ==
    LET t == Transaction(db, action_json, summary, identity, role, method, now, fail)
    IN  [db |-> IF t.ok THEN t.tx ELSE DropTransaction(db, t.tx), ok |-> t.ok]

\* Storage::record_steer
record_steer(db, steer, summary, identity, role, method, now, fail) ==
    record_entry(db, SteerActionJson(steer), summary, identity, role, method, now, fail)

\* a record_log that records no identity
record_log_anonymous(db, status, summary, identity, role, method, now, fail) ==
    record_entry(db, LogActionJson(status), summary, "", role, method, now, fail)

\* Storage::record_log
record_log(db, status, summary, identity, role, method, now, fail) ==
    record_entry(db, LogActionJson(status), summary, identity, role, method, now, fail)

\* the logbook rows read newest first
RECURSIVE OrderByIdDescending(_)
OrderByIdDescending(rows) ==
    IF rows = {} THEN <<>>
    ELSE LET r == CHOOSE x \in rows : \A y \in rows : x.id >= y.id
         IN  <<r>> \o OrderByIdDescending(rows \ {r})

SelectLogbookRowsDescending(db) == OrderByIdDescending(db.logbook)

\* load_logbook, lines 63-82: SELECT ... FROM logbook ORDER BY id
SelectLogbookRows(db) == OrderById(db.logbook)

\* load_bearing_observations, lines 169-184: SELECT ... FROM
\* bearing_observations WHERE logbook_id = ?1 ORDER BY rowid
SelectBearingObservations(db, logbook_id) ==
    OrderByRowid({r \in db.bearing_observations : r.logbook_id = logbook_id})

\* serde_json::from_str::<Observe>: the target whose JSON is the text, an
\* error when there is none
ParseTarget(text) ==
    IF \E t \in Observe : TargetJson(t) = text
    THEN [ok |-> TRUE, value |-> CHOOSE t \in Observe : TargetJson(t) = text]
    ELSE [ok |-> FALSE, value |-> <<>>]

\* str::parse::<Timestamp>
ParseTimestamp(text) ==
    IF \E ts \in Times : TimestampToString(ts) = text
    THEN [ok |-> TRUE, value |-> CHOOSE ts \in Times : TimestampToString(ts) = text]
    ELSE [ok |-> FALSE, value |-> <<>>]

\* serde_json::from_slice::<Payload>
ParsePayload(bytes) ==
    IF \E p \in Payload : PayloadJson(p) = bytes
    THEN [ok |-> TRUE, value |-> CHOOSE p \in Payload : PayloadJson(p) = bytes]
    ELSE [ok |-> FALSE, value |-> <<>>]

\* load_artifact: the payload stored under the hash; ArtifactNotFound when no
\* row has the hash, ArtifactCorrupt when the data does not parse
load_artifact(db, hash) ==
    LET rows == {a \in db.artifacts : a.hash = hash}
    IN  IF rows = {}
        THEN [ok |-> FALSE, value |-> "ArtifactNotFound"]
        ELSE LET p == ParsePayload(ZstdDecode((CHOOSE a \in rows : TRUE).data))
             IN  IF p.ok THEN p ELSE [ok |-> FALSE, value |-> "ArtifactCorrupt"]

\* load_bearing_observations, lines 186-199: one Observation per row
load_bearing_observations(db, logbook_id) ==
    LET rows == SelectBearingObservations(db, logbook_id)
        target(i) == ParseTarget(rows[i].target)
        observed_at(i) == ParseTimestamp(rows[i].observed_at)
        payload(i) == load_artifact(db, rows[i].artifact_hash)
    IN  [ok |-> \A i \in 1..Len(rows) : target(i).ok /\ observed_at(i).ok /\ payload(i).ok,
         value |-> [i \in 1..Len(rows) |->
                      [target |-> target(i).value, payload |-> payload(i).value,
                       observed_at |-> observed_at(i).value]]]

EntryKind ==
    [kind : {"Steer"}, steer : Steer] \cup [kind : {"Log"}, status : Statuses]

EntryKindJson(kind) ==
    IF kind.kind = "Steer" THEN SteerActionJson(kind.steer) ELSE LogActionJson(kind.status)

\* serde_json::from_str::<EntryKind>
ParseEntryKind(text) ==
    IF \E k \in EntryKind : EntryKindJson(k) = text
    THEN [ok |-> TRUE, value |-> CHOOSE k \in EntryKind : EntryKindJson(k) = text]
    ELSE [ok |-> FALSE, value |-> <<>>]

\* Storage::load_logbook, lines 84-108: one LogbookEntry per row, in row order
load_logbook(db) ==
    LET rows == SelectLogbookRows(db)
        recorded_at(i) == ParseTimestamp(rows[i].recorded_at)
        kind(i) == ParseEntryKind(rows[i].action)
        observations(i) == load_bearing_observations(db, rows[i].id)
    IN  [ok |-> \A i \in 1..Len(rows) : recorded_at(i).ok /\ kind(i).ok /\ observations(i).ok,
         value |-> [i \in 1..Len(rows) |->
                      [bearing |-> [observations |-> observations(i).value,
                                    summary |-> rows[i].summary],
                       identity |-> rows[i].identity, role |-> rows[i].role,
                       method |-> rows[i].method, recorded_at |-> recorded_at(i).value,
                       kind |-> kind(i).value]]]

\* load_slate, lines 48-52: SELECT ... FROM slate s JOIN artifacts b ON the
\* hash, without ORDER BY: SQLite scans the slate table, which it reads by
\* rowid, and searches the artifact of each row by its key
ScanSlateJoinArtifacts(db) ==
    LET joined == {r \in db.slate : \E a \in db.artifacts : a.hash = r.artifact_hash}
        ordered == OrderByRowid(joined)
    IN  [i \in 1..Len(ordered) |->
            [target |-> ordered[i].target, observed_at |-> ordered[i].observed_at,
             data |-> (CHOOSE a \in db.artifacts : a.hash = ordered[i].artifact_hash).data]]

\* a load_slate that reads the newest row first
load_slate_newest_first(db) ==
    LET rows == ScanSlateJoinArtifacts(db)
        n == Len(rows)
        target(i) == ParseTarget(rows[n + 1 - i].target)
        payload(i) == ParsePayload(ZstdDecode(rows[n + 1 - i].data))
        observed_at(i) == ParseTimestamp(rows[n + 1 - i].observed_at)
    IN  [ok |-> \A i \in 1..n : target(i).ok /\ payload(i).ok /\ observed_at(i).ok,
         value |-> [i \in 1..n |->
                      [target |-> target(i).value, payload |-> payload(i).value,
                       observed_at |-> observed_at(i).value]]]

\* Storage::load_slate, lines 53-74: one Observation per row, in row order
load_slate(db) ==
    LET rows == ScanSlateJoinArtifacts(db)
        target(i) == ParseTarget(rows[i].target)
        payload(i) == ParsePayload(ZstdDecode(rows[i].data))
        observed_at(i) == ParseTimestamp(rows[i].observed_at)
    IN  [ok |-> \A i \in 1..Len(rows) : target(i).ok /\ payload(i).ok /\ observed_at(i).ok,
         value |-> [i \in 1..Len(rows) |->
                      [target |-> target(i).value, payload |-> payload(i).value,
                       observed_at |-> observed_at(i).value]]]

(***************************************************************************)
(* storage/voyage.rs                                                       *)
(***************************************************************************)
\* the identifier of this voyage, and one that names no stored voyage row,
\* as the text Uuid::to_string renders
VoyageId == "0a1b"
OtherVoyageId == "0a9f"

\* a Uuid value, by its text
Uuid(text) == [uuid |-> text]
Uuids == {Uuid(VoyageId), Uuid(OtherVoyageId)}
UuidToString(id) == id.uuid

\* no file at a path of the storage root
NoFile == [exists |-> FALSE]

Active == [kind |-> "Active"]
Ended(ended_at, status) == [kind |-> "Ended", ended_at |-> ended_at, status |-> status]

\* Option<String>: None is SQL NULL
None == <<>>
Some(x) == <<x>>

\* an encode_status that drops the outcome of an ended voyage
encode_status_drops_outcome(status) ==
    IF status.kind = "Active"
    THEN <<"active", None, None>>
    ELSE <<"ended", Some(TimestampToString(status.ended_at)), None>>

\* encode_status
encode_status(status) ==
    IF status.kind = "Active"
    THEN <<"active", None, None>>
    ELSE <<"ended", Some(TimestampToString(status.ended_at)), status.status>>

UpdateFailures == {"none", "open", "update"}

\* an update_voyage that writes the whole voyage value over the row
update_voyage_rewrites_row(db, v, fail) ==
    IF fail # "none"
    THEN [db |-> db, ok |-> FALSE, err |-> "Db"]
    ELSE LET affected == {r \in db.voyage : r.id = UuidToString(v.id)}
         IN  IF affected = {}
             THEN [db |-> db, ok |-> FALSE, err |-> "VoyageNotFound"]
             ELSE [db |-> [db EXCEPT !.voyage =
                              (@ \ affected) \cup
                                  {[id |-> r.id,
                                    intent |-> v.intent,
                                    created_at |-> TimestampToString(v.created_at),
                                    status |-> encode_status(v.status)[1],
                                    ended_at |-> encode_status(v.status)[2],
                                    ended_status |-> encode_status(v.status)[3]] :
                                      r \in affected}],
                   ok |-> TRUE, err |-> "none"]

\* an update_voyage that inserts the new state of the voyage as another row
update_voyage_appends_row(db, v, fail) ==
    IF fail # "none"
    THEN [db |-> db, ok |-> FALSE, err |-> "Db"]
    ELSE LET enc == encode_status(v.status)
             affected == {r \in db.voyage : r.id = UuidToString(v.id)}
         IN  IF affected = {}
             THEN [db |-> db, ok |-> FALSE, err |-> "VoyageNotFound"]
             ELSE [db |-> [db EXCEPT !.voyage =
                              @ \cup
                                  {[r EXCEPT !.status = enc[1], !.ended_at = enc[2],
                                             !.ended_status = enc[3]] : r \in affected}],
                   ok |-> TRUE, err |-> "none"]

\* Storage::update_voyage: UPDATE voyage SET status, ended_at, ended_status
\* WHERE id = ?4; no row affected is VoyageNotFound
update_voyage(db, v, fail) ==
    IF fail # "none"
    THEN [db |-> db, ok |-> FALSE, err |-> "Db"]
    ELSE LET enc == encode_status(v.status)
             affected == {r \in db.voyage : r.id = UuidToString(v.id)}
         IN  IF affected = {}
             THEN [db |-> db, ok |-> FALSE, err |-> "VoyageNotFound"]
             ELSE [db |-> [db EXCEPT !.voyage =
                              (@ \ affected) \cup
                                  {[r EXCEPT !.status = enc[1], !.ended_at = enc[2],
                                             !.ended_status = enc[3]] : r \in affected}],
                   ok |-> TRUE, err |-> "none"]

\* create_voyage, lines 21-33: the voyage row of a voyage value
VoyageRow(v) ==
    LET enc == encode_status(v.status)
    IN  [id |-> UuidToString(v.id), intent |-> v.intent,
         created_at |-> TimestampToString(v.created_at),
         status |-> enc[1], ended_at |-> enc[2], ended_status |-> enc[3]]

\* str::parse::<Uuid>
ParseUuid(text) ==
    LET parsed == {id \in Uuids : UuidToString(id) = text}
    IN  IF parsed # {}
        THEN [ok |-> TRUE, value |-> CHOOSE id \in parsed : TRUE]
        ELSE [ok |-> FALSE, value |-> <<>>]

\* decode_voyage: a voyage value of a voyage row, or a conversion failure
decode_voyage(row) ==
    LET id == ParseUuid(row.id)
        created_at == ParseTimestamp(row.created_at)
        ended_at == ParseTimestamp(IF row.ended_at = None THEN <<>> ELSE row.ended_at[1])
        failure == [ok |-> FALSE, value |-> "FromSqlConversionFailure"]
    IN  IF ~id.ok \/ ~created_at.ok THEN failure
        ELSE IF row.status = "active"
        THEN [ok |-> TRUE,
              value |-> [id |-> id.value, intent |-> row.intent,
                         created_at |-> created_at.value, status |-> Active]]
        ELSE IF row.status = "ended"
        THEN IF ~ended_at.ok THEN failure
             ELSE [ok |-> TRUE,
                   value |-> [id |-> id.value, intent |-> row.intent,
                              created_at |-> created_at.value,
                              status |-> Ended(ended_at.value, row.ended_status)]]
        ELSE failure

LoadFailures == {"none", "open", "query"}

\* Storage::load_voyage: SELECT ... FROM voyage LIMIT 1, decoded; no row is
\* an error of the engine
load_voyage(db, fail) ==
    IF fail # "none" \/ db.voyage = {}
    THEN [ok |-> FALSE, value |-> "Db"]
    ELSE decode_voyage(CHOOSE r \in db.voyage : TRUE)

(***************************************************************************)
(* cli/voyage.rs                                                           *)
(***************************************************************************)
\* the outcome texts a user may give to `voyage end`
EndStatuses == {None, Some("Done.")}

\* cmd_new, lines 36-41: the voyage value of a new voyage
NewVoyage(id, intent, now) ==
    [id |-> id, intent |-> intent, created_at |-> now, status |-> Active]

\* a cmd_end that reopens an ended voyage
cmd_end_reopens(db, v, status, now, fail) ==
    LET r == update_voyage(db, [v EXCEPT !.status = IF @.kind = "Ended" THEN Active
                                                     ELSE Ended(now, status)], fail)
    IN  IF r.ok THEN [db |-> r.db, ok |-> TRUE, err |-> "none"]
        ELSE [db |-> db, ok |-> FALSE, err |-> "failed to update voyage"]

\* a cmd_end that does not look at the status of the voyage
cmd_end_unchecked(db, v, status, now, fail) ==
    LET r == update_voyage(db, [v EXCEPT !.status = Ended(now, status)], fail)
    IN  IF r.ok THEN [db |-> r.db, ok |-> TRUE, err |-> "none"]
        ELSE [db |-> db, ok |-> FALSE, err |-> "failed to update voyage"]

\* cmd_end: an ended voyage is refused, an active one is stored as ended now
cmd_end(db, v, status, now, fail) ==
    IF v.status.kind = "Ended"
    THEN [db |-> db, ok |-> FALSE, err |-> "is already ended"]
    ELSE LET r == update_voyage(db, [v EXCEPT !.status = Ended(now, status)], fail)
         IN  IF r.ok
             THEN [db |-> r.db, ok |-> TRUE, err |-> "none"]
             ELSE [db |-> db, ok |-> FALSE, err |-> "failed to update voyage"]

\* resolve_voyage, given the full identifier: the voyage is loaded
resolve_voyage(db, fail) == load_voyage(db, fail)

\* Observe::needs_gh: the targets read through gh
needs_gh(target) == target.kind = "GitHubIssue"

\* where cmd_observe can fail besides the slate append: the load of the
\* voyage, the identity and its gh configuration, the serialization, the
\* write of the output file
ObserveFailures == {"load", "gh_config", "serialize", "write_out"} \cup AppendFailures

\* a cmd_observe that writes its output before it appends to the slate
cmd_observe_writes_first(db, v, observation, fail) ==
    IF fail = "gh_config" /\ needs_gh(observation.target)
    THEN [db |-> db, ok |-> FALSE, err |-> "identity required", stored |-> FALSE,
          emitted |-> FALSE]
    ELSE IF fail = "serialize"
    THEN [db |-> db, ok |-> FALSE, err |-> "failed to serialize observation",
          stored |-> FALSE, emitted |-> FALSE]
    ELSE IF fail = "write_out"
    THEN [db |-> db, ok |-> FALSE, err |-> "failed to write", stored |-> FALSE,
          emitted |-> FALSE]
    ELSE LET r == append_slate(db, observation,
                               IF fail \in AppendFailures THEN fail ELSE "none")
         IN  IF ~r.ok
             THEN [db |-> db, ok |-> FALSE, err |-> "failed to append to slate",
                   stored |-> FALSE, emitted |-> TRUE]
             ELSE [db |-> r.db, ok |-> TRUE, err |-> "none", stored |-> TRUE,
                   emitted |-> TRUE]

\* cmd_observe: the observation taken is appended to the slate of the voyage,
\* then written out, to the --out file (whose write can fail) or to stdout;
\* stored tells whether the slate took it, emitted whether the JSON was
\* written
cmd_observe(db, v, observation, fail) ==
    IF fail = "gh_config" /\ needs_gh(observation.target)
    THEN [db |-> db, ok |-> FALSE, err |-> "identity required", stored |-> FALSE,
          emitted |-> FALSE]
    ELSE IF fail = "serialize"
    THEN [db |-> db, ok |-> FALSE, err |-> "failed to serialize observation",
          stored |-> FALSE, emitted |-> FALSE]
    ELSE LET r == append_slate(db, observation,
                               IF fail \in AppendFailures THEN fail ELSE "none")
         IN  IF ~r.ok
             THEN [db |-> db, ok |-> FALSE, err |-> "failed to append to slate",
                   stored |-> FALSE, emitted |-> FALSE]
             ELSE IF fail = "write_out"
             THEN [db |-> r.db, ok |-> FALSE, err |-> "failed to write", stored |-> TRUE,
                   emitted |-> FALSE]
             ELSE [db |-> r.db, ok |-> TRUE, err |-> "none", stored |-> TRUE,
                   emitted |-> TRUE]

\* cmd_erase: a target that is not on the slate is an error
\* a cmd_erase that does not look at what erase_from_slate answered
cmd_erase_ignores_answer(db, v, target, fail) ==
    LET r == erase_slate(db, target, fail)
    IN  IF ~r.ok THEN [db |-> db, ok |-> FALSE, err |-> "failed to erase from slate"]
        ELSE [db |-> r.db, ok |-> TRUE, err |-> "none"]

cmd_erase(db, v, target, fail) ==
    LET r == erase_slate(db, target, fail)
    IN  IF ~r.ok THEN [db |-> db, ok |-> FALSE, err |-> "failed to erase from slate"]
        ELSE IF ~r.ret THEN [db |-> r.db, ok |-> FALSE, err |-> "is not on the slate"]
        ELSE [db |-> r.db, ok |-> TRUE, err |-> "none"]

\* cmd_clear
cmd_clear(db, v, fail) ==
    LET r == clear_slate(db, fail)
    IN  IF ~r.ok THEN [db |-> db, ok |-> FALSE, err |-> "failed to clear slate"]
        ELSE [db |-> r.db, ok |-> TRUE, err |-> "none"]

\* model/steer.rs: a steer that perform does not implement
UnimplementedSteer == [kind |-> "MergePullRequest"]
SteerCommands == Steer \cup {UnimplementedSteer}

\* a perform that posts the comment and then reports the failure of gh
perform_posts_and_fails(w, steer, fail) ==
    IF steer.kind # "Comment"
    THEN [world |-> w, ok |-> FALSE, err |-> "this steer action is not yet implemented"]
    ELSE IF fail = "gh"
    THEN [world |-> w + 1, ok |-> FALSE, err |-> "gh command failed"]
    ELSE [world |-> w + 1, ok |-> TRUE, err |-> "none"]

\* steer.rs perform: a comment is posted through gh, which counts one more
\* mutation of the world; every other steer is not implemented
perform(w, steer, fail) ==
    IF steer.kind # "Comment"
    THEN [world |-> w, ok |-> FALSE, err |-> "this steer action is not yet implemented"]
    ELSE IF fail = "gh"
    THEN [world |-> w, ok |-> FALSE, err |-> "gh command failed"]
    ELSE [world |-> w + 1, ok |-> TRUE, err |-> "none"]

\* where a command can fail before its storage call: the load of the voyage
LoadFailure(fail) == IF fail = "load" THEN "query" ELSE "none"

\* where cmd_action can fail: the load of the voyage, the gh configuration
\* of the identity, the perform, a step of the seal
ActionFailures(db) ==
    [step : {"load", "gh_config", "gh"}, k : {0}] \cup SealFailures(db)

\* the failure of the seal of a command, if that is where it fails
SealFailure(fail) ==
    IF fail.step \in SealSteps THEN fail ELSE [step |-> "none", k |-> 0]

\* a cmd_action that seals before it performs
cmd_action_seals_first(db, w, v, steer, now, fail) ==
    IF v.status.kind = "Ended"
    THEN [db |-> db, world |-> w, ok |-> FALSE, err |-> "is already ended"]
    ELSE IF fail.step = "gh_config"
    THEN [db |-> db, world |-> w, ok |-> FALSE, err |-> "no GitHub config for identity"]
    ELSE LET s == record_steer(db, steer, SteerArgs.summary, SteerArgs.identity,
                               SteerArgs.role, SteerArgs.method, now, SealFailure(fail))
             act == perform(w, steer, fail.step)
         IN  IF ~s.ok
             THEN [db |-> db, world |-> w, ok |-> FALSE, err |-> "failed to save action"]
             ELSE [db |-> s.db, world |-> act.world, ok |-> act.ok, err |-> act.err]

\* cmd_action: an ended voyage is refused; the steer is performed, and then
\* sealed into the logbook of the voyage
cmd_action(db, w, v, steer, now, fail) ==
    IF v.status.kind = "Ended"
    THEN [db |-> db, world |-> w, ok |-> FALSE, err |-> "is already ended"]
    ELSE IF fail.step = "gh_config"
    THEN [db |-> db, world |-> w, ok |-> FALSE, err |-> "no GitHub config for identity"]
    ELSE LET act == perform(w, steer, fail.step)
         IN  IF ~act.ok
             THEN [db |-> db, world |-> act.world, ok |-> FALSE, err |-> act.err]
             ELSE LET s == record_steer(db, steer, SteerArgs.summary, SteerArgs.identity,
                                        SteerArgs.role, SteerArgs.method, now,
                                        SealFailure(fail))
                  IN  IF s.ok
                      THEN [db |-> s.db, world |-> act.world, ok |-> TRUE, err |-> "none"]
                      ELSE [db |-> db, world |-> act.world, ok |-> FALSE,
                            err |-> "failed to save action"]

\* cmd_log: an ended voyage is refused; the status is sealed into the logbook
cmd_log(db, v, status, now, fail) ==
    IF v.status.kind = "Ended"
    THEN [db |-> db, ok |-> FALSE, err |-> "is already ended"]
    ELSE LET s == record_log(db, status, LogArgs.summary, LogArgs.identity,
                             LogArgs.role, LogArgs.method, now, SealFailure(fail))
         IN  IF s.ok THEN [db |-> s.db, ok |-> TRUE, err |-> "none"]
             ELSE [db |-> db, ok |-> FALSE, err |-> "failed to save log"]

(***************************************************************************)
(* identity.rs                                                             *)
(***************************************************************************)
IDENTITY_REQUIRED == "identity required"

\* ~/.helm/config.toml
ConfigPath == "config.toml"

\* what a config file may hold: an identity, an empty identity, another
\* key only, nothing, an identity that is no string, and no TOML
ConfigContents ==
    {"identity = \"carol\"", "identity = \"\"", "some_other_field = \"value\"", "",
     "identity = 42", "not valid toml ][["}

\* a file that is there and cannot be read
Unreadable == [exists |-> TRUE, readable |-> FALSE]

\* a readable file of the contents
FileOfContents(contents) == [exists |-> TRUE, readable |-> TRUE, contents |-> contents]

\* toml::from_str::<Config>: the identity key, if any; keys that Config does
\* not name are ignored
ParseConfig(contents) ==
    CASE contents = "identity = \"carol\"" ->
            [ok |-> TRUE, value |-> [identity |-> Some("carol")]]
      [] contents = "identity = \"\"" -> [ok |-> TRUE, value |-> [identity |-> Some("")]]
      [] contents = "some_other_field = \"value\"" ->
            [ok |-> TRUE, value |-> [identity |-> None]]
      [] contents = "" -> [ok |-> TRUE, value |-> [identity |-> None]]
      [] OTHER -> [ok |-> FALSE, value |-> <<>>]

\* Option::filter(|s| !s.is_empty())
FilterNonEmpty(option) == IF option # None /\ option[1] # "" THEN option ELSE None

\* read_config_identity: Ok(None) without the file, an error when it cannot
\* be read or parsed, else the non-empty identity
read_config_identity(home, path) ==
    LET file == home[path]
    IN  IF file = NoFile THEN [ok |-> TRUE, value |-> None, err |-> "none"]
        ELSE IF ~file.readable THEN [ok |-> FALSE, value |-> None, err |-> "failed to read"]
        ELSE LET config == ParseConfig(file.contents)
             IN  IF ~config.ok
                 THEN [ok |-> FALSE, value |-> None, err |-> "failed to parse"]
                 ELSE [ok |-> TRUE, value |-> FilterNonEmpty(config.value.identity),
                       err |-> "none"]

\* a resolve_inner that takes any value of the environment variable
resolve_inner_unfiltered(home, explicit, env_val, config_path) ==
    IF explicit # None THEN [ok |-> TRUE, value |-> explicit, err |-> "none"]
    ELSE IF env_val # None
    THEN [ok |-> TRUE, value |-> env_val, err |-> "none"]
    ELSE LET id == IF config_path = None THEN [ok |-> TRUE, value |-> None, err |-> "none"]
                   ELSE read_config_identity(home, config_path[1])
         IN  IF ~id.ok THEN id
             ELSE IF id.value # None THEN id
             ELSE [ok |-> FALSE, value |-> None, err |-> IDENTITY_REQUIRED]

\* resolve_inner: the explicit value, else the non-empty environment value,
\* else the identity of the config file, else IDENTITY_REQUIRED
resolve_inner(home, explicit, env_val, config_path) ==
    IF explicit # None THEN [ok |-> TRUE, value |-> explicit, err |-> "none"]
    ELSE IF FilterNonEmpty(env_val) # None
    THEN [ok |-> TRUE, value |-> env_val, err |-> "none"]
    ELSE LET id == IF config_path = None THEN [ok |-> TRUE, value |-> None, err |-> "none"]
                   ELSE read_config_identity(home, config_path[1])
         IN  IF ~id.ok THEN id
             ELSE IF id.value # None THEN id
             ELSE [ok |-> FALSE, value |-> None, err |-> IDENTITY_REQUIRED]

(***************************************************************************)
(* observe.rs, observe/file_contents.rs                                    *)
(***************************************************************************)
\* the files a FileContents target may name
TextPath == "a.txt"
BinaryPath == "b.bin"
ObservedPaths == {TextPath, BinaryPath}

\* the bytes a file may hold: none, ASCII text, and bytes that are no UTF-8
FileBytes == {<<>>, <<104, 105>>, <<255, 254, 0>>}

\* the targets a caller may observe: files in every order of up to two
\* paths, a directory tree, a Rust project, and the GitHub targets
ObserveTargets ==
    {[kind |-> "FileContents", paths |-> paths] :
        paths \in {<<>>} \cup {<<p>> : p \in ObservedPaths} \cup
                   {<<p, q>> : p \in ObservedPaths, q \in ObservedPaths}} \cup
    {[kind |-> "DirectoryTree", root |-> "src/"], [kind |-> "RustProject", root |-> "src/"],
     [kind |-> "GitHubPullRequest", number |-> 1, focus |-> <<"summary">>],
     [kind |-> "GitHubIssue", number |-> 1, focus |-> <<"summary">>],
     [kind |-> "GitHubRepository", focus |-> <<"issues">>]}

\* String::from_utf8, on the bytes above: ASCII is UTF-8, and a sequence
\* holding the byte 255 is not
FromUtf8(bytes) ==
    IF \A i \in 1..Len(bytes) : bytes[i] < 128
    THEN [ok |-> TRUE, text |-> bytes]
    ELSE [ok |-> FALSE, bytes |-> bytes]

\* read_file: Text for UTF-8, Binary with the size for other bytes, Error
\* with the message of the failed read
read_file(fs, path) ==
    LET file == fs[path]
        content == IF file = NoFile
                   THEN [kind |-> "Error", message |-> "No such file or directory"]
                   ELSE IF ~file.readable
                   THEN [kind |-> "Error", message |-> "Permission denied"]
                   ELSE LET text == FromUtf8(file.contents)
                        IN  IF text.ok THEN [kind |-> "Text", content |-> text.text]
                            ELSE [kind |-> "Binary", size_bytes |-> Len(text.bytes)]
    IN  [path |-> path, content |-> content]

\* observe_file_contents: one entry per path, in order
observe_file_contents(fs, paths) ==
    [kind |-> "FileContents",
     contents |-> [i \in 1..Len(paths) |-> read_file(fs, paths[i])]]

\* observe_github_*: what gh answered, nothing when it failed
observe_github(target, gh, config) ==
    [kind |-> target.kind,
     summary |-> IF gh = "ok" THEN Some("summary of #1") ELSE None]

\* observe: the payload of the target, or the panic of
\* gh_config_dir.expect(...) for a GitHub target without a config directory
observe(fs, gh, target, gh_config_dir) ==
    CASE target.kind = "FileContents" ->
            [returned |-> TRUE, payload |-> observe_file_contents(fs, target.paths)]
      [] target.kind \in {"DirectoryTree", "RustProject"} ->
            [returned |-> TRUE, payload |-> [kind |-> target.kind, listings |-> <<>>]]
      [] OTHER ->
            IF gh_config_dir = None
            THEN [returned |-> FALSE, payload |-> "GitHub targets require gh_config_dir"]
            ELSE [returned |-> TRUE,
                  payload |-> observe_github(target, gh, gh_config_dir[1])]

(***************************************************************************)
(* bearing.rs, observe/files.rs                                            *)
(***************************************************************************)
\* the paths given to a bearing builder: a directory and a file in it
SurveyedPath == "src"
InspectedPath == "src/a.txt"
BearingPaths == {SurveyedPath, InspectedPath}

\* position texts, as characters: empty, blank, and two with words
PositionTexts == {<<>>, <<" ", " ">>, <<"o", "k">>, <<" ", "o", "k", " ">>}

\* str::trim
RECURSIVE TrimStart(_)
TrimStart(text) ==
    IF text # <<>> /\ Head(text) = " " THEN TrimStart(Tail(text)) ELSE text

RECURSIVE TrimEnd(_)
TrimEnd(text) ==
    IF text # <<>> /\ text[Len(text)] = " "
    THEN TrimEnd(SubSeq(text, 1, Len(text) - 1)) ELSE text

trim(text) == TrimEnd(TrimStart(text))

\* survey_directory: the entries of a directory, none for any other path
survey_directory(path) ==
    [path |-> path,
     entries |-> IF path = SurveyedPath
                 THEN <<[name |-> "a.txt", is_dir |-> FALSE, size_bytes |-> Some(2)]>>
                 ELSE <<>>]

\* inspect_file: the text of a file, an error for any other path
inspect_file(path) ==
    [path |-> path,
     content |-> IF path = InspectedPath THEN [kind |-> "Text", text |-> "hi"]
                 ELSE [kind |-> "Error", text |-> "Is a directory"]]

\* observe_files: one survey per scope path, one inspection per focus path
observe_files(scope, focus) ==
    [kind |-> "Files",
     survey |-> [i \in 1..Len(scope) |-> survey_directory(scope[i])],
     inspections |-> [i \in 1..Len(focus) |-> inspect_file(focus[i])]]

\* Phase
Phases == <<"Scope", "Focus", "Observed", "Position">>

\* BearingBuilder::new; moved tells that set_position took the builder
NewBuilder ==
    [scope |-> <<>>, focus |-> <<>>, moment |-> None, plan |-> None,
     phase |-> "Scope", moved |-> FALSE]

\* what a call on a builder answers: the builder after it, whether it
\* returned Ok, the error or the panic message, the bearing if any
Returned(builder) == [builder |-> builder, ok |-> TRUE, err |-> "none", value |-> None]
Failed(builder, err) == [builder |-> builder, ok |-> FALSE, err |-> err, value |-> None]
Panicked(builder, message) ==
    [builder |-> builder, ok |-> FALSE, err |-> message, value |-> None]

add_scope(builder, path) ==
    IF builder.phase # "Scope"
    THEN Panicked(builder, "add_scope called outside Scope phase")
    ELSE Returned([builder EXCEPT !.scope = Append(@, path)])

\* a finish_scope that asserts its phase as the other steps do
finish_scope_asserting(builder) ==
    IF builder.phase # "Scope"
    THEN Panicked(builder, "finish_scope called outside Scope phase")
    ELSE IF builder.scope = <<>>
    THEN Failed(builder, "at least one scope path is required")
    ELSE Returned([builder EXCEPT !.phase = "Focus"])

finish_scope(builder) ==
    IF builder.scope = <<>>
    THEN Failed(builder, "at least one scope path is required")
    ELSE Returned([builder EXCEPT !.phase = "Focus"])

add_focus(builder, path) ==
    IF builder.phase # "Focus"
    THEN Panicked(builder, "add_focus called outside Focus phase")
    ELSE Returned([builder EXCEPT !.focus = Append(@, path)])

finish_focus(builder) ==
    IF builder.phase # "Focus"
    THEN Panicked(builder, "finish_focus called outside Focus phase")
    ELSE LET plan == [sources |-> <<[kind |-> "Files", scope |-> builder.scope,
                                     focus |-> builder.focus]>>]
             observations == <<observe_files(builder.scope, builder.focus)>>
         IN  Returned([builder EXCEPT !.moment = Some([observations |-> observations]),
                                      !.plan = Some(plan),
                                      !.phase = "Observed"])

acknowledge_moment(builder) ==
    IF builder.phase # "Observed"
    THEN Panicked(builder, "acknowledge_moment called outside Observed phase")
    ELSE Returned([builder EXCEPT !.phase = "Position"])

\* set_position takes the builder by value: it is gone whatever the answer
set_position(builder, text, now) ==
    LET gone == [builder EXCEPT !.moved = TRUE]
    IN  IF builder.phase # "Position"
        THEN Panicked(gone, "set_position called outside Position phase")
        ELSE IF trim(text) = <<>>
        THEN Failed(gone, "position text cannot be empty")
        ELSE IF builder.plan = None
        THEN Panicked(gone, "plan should exist after observation")
        ELSE IF builder.moment = None
        THEN Panicked(gone, "moment should exist after observation")
        ELSE [builder |-> [gone EXCEPT !.plan = None, !.moment = None],
              ok |-> TRUE, err |-> "none",
              value |-> Some([plan |-> builder.plan[1], moment |-> builder.moment[1],
                              position |-> [text |-> text, history |-> <<>>],
                              taken_at |-> now])]

(***************************************************************************)
(* The storage root                                                        *)
(***************************************************************************)
\* Storage::voyage_path: <root>/<uuid>.sqlite, named by its stem
voyage_path(id) == UuidToString(id)

\* the files under the storage root: the database of this voyage, and the
\* others
Files == (VoyageId :> Database) @@ others

\* a database after SCHEMA_DDL: every table, no row
EmptyDatabase ==
    [artifacts |-> {}, slate |-> {}, logbook |-> {}, sqlite_sequence |-> 0,
     bearing_observations |-> {}, voyage |-> {}]

\* Storage::open_voyage: a connection to the database file of the voyage;
\* without the file, VoyageNotFound
open_voyage(files, id) ==
    LET path == voyage_path(id)
    IN  IF files[path] = NoFile
        THEN [ok |-> FALSE, path |-> path, db |-> NoFile]
        ELSE [ok |-> TRUE, path |-> path, db |-> files[path]]

\* a storage call that opens the database with Connection::open, as
\* create_voyage does, which creates the file when it is not there
open_db_or_create(files, voyage_id) ==
    LET path == voyage_path(voyage_id)
    IN  IF files[path] = NoFile
        THEN [ok |-> TRUE, path |-> path, db |-> EmptyDatabase]
        ELSE open_voyage(files, voyage_id)

\* a storage call that opens the database of this voyage, whichever it is given
open_db_of_this_voyage(files, voyage_id) == open_voyage(files, Uuid(VoyageId))

\* `self.open_db(voyage_id)?`, `self.open_voyage(voyage_id)?`: a storage
\* call opens the database of the voyage it is given
open_db(files, voyage_id) == open_voyage(files, voyage_id)

\* what a storage call answers when the voyage is not found
VoyageNotFound == [db |-> NoFile, ok |-> FALSE, ret |-> FALSE, err |-> "VoyageNotFound"]

CreateFailures == {"none", "open", "insert"}

\* a create_voyage that does not look for the file
create_voyage_overwrites(files, v, fail) ==
    LET path == voyage_path(v.id)
    IN  IF fail = "open" THEN [files |-> files, ok |-> FALSE, err |-> "Db"]
        ELSE IF fail = "insert"
        THEN [files |-> [files EXCEPT ![path] = EmptyDatabase], ok |-> FALSE, err |-> "Db"]
        ELSE [files |-> [files EXCEPT ![path] =
                            [EmptyDatabase EXCEPT !.voyage = {VoyageRow(v)}]],
              ok |-> TRUE, err |-> "none"]

\* a create_voyage that removes the file when it fails
create_voyage_all_or_nothing(files, v, fail) ==
    LET path == voyage_path(v.id)
    IN  IF files[path] # NoFile
        THEN [files |-> files, ok |-> FALSE, err |-> "VoyageAlreadyExists"]
        ELSE IF fail \in {"open", "insert"}
        THEN [files |-> files, ok |-> FALSE, err |-> "Db"]
        ELSE [files |-> [files EXCEPT ![path] =
                            [EmptyDatabase EXCEPT !.voyage = {VoyageRow(v)}]],
              ok |-> TRUE, err |-> "none"]

\* Storage::create_voyage: VoyageAlreadyExists when the file is there; else
\* the file is created, the schema run and the voyage row inserted (a
\* failure after the open leaves the file without the row)
create_voyage(files, v, fail) ==
    LET path == voyage_path(v.id)
    IN  IF files[path] # NoFile
        THEN [files |-> files, ok |-> FALSE, err |-> "VoyageAlreadyExists"]
        ELSE IF fail = "open" THEN [files |-> files, ok |-> FALSE, err |-> "Db"]
        ELSE IF fail = "insert"
        THEN [files |-> [files EXCEPT ![path] = EmptyDatabase], ok |-> FALSE, err |-> "Db"]
        ELSE [files |-> [files EXCEPT ![path] =
                            [EmptyDatabase EXCEPT !.voyage = {VoyageRow(v)}]],
              ok |-> TRUE, err |-> "none"]

\* the database file of a voyage under the storage root
FileOf(id) == Files[voyage_path(id)]

\* load_voyage(id) on the storage root
LoadVoyage(files, id) ==
    LET conn == open_db(files, id)
    IN  IF conn.ok THEN load_voyage(conn.db, "none")
        ELSE [ok |-> FALSE, value |-> "VoyageNotFound"]

\* entries of the storage root that are not the database of a voyage: a
\* database under a name that is no identifier, and what is left of a
\* voyage of the JSONL store
NotesPath == "notes"
LegacyPath == "0a9f.jsonl"

\* Path::file_stem
file_stem(path) ==
    CASE path = NotesPath -> "notes"
      [] path = LegacyPath -> OtherVoyageId
      [] OTHER -> path

\* Path::extension
extension(path) == IF path = LegacyPath THEN Some("jsonl") ELSE Some("sqlite")

\* std::fs::read_dir: the entries of the storage root, in an order the file
\* system chooses
read_dir(files) ==
    LET present == {path \in DOMAIN files : files[path] # NoFile}
    IN  {entries \in [1..Cardinality(present) -> present] :
            \A i, j \in 1..Cardinality(present) : entries[i] = entries[j] => i = j}

\* Vec::sort_by on created_at: a stable sort
RECURSIVE SortByCreatedAt(_)
SortByCreatedAt(voyages) ==
    IF voyages = <<>> THEN <<>>
    ELSE LET n == Len(voyages)
             sorted == SortByCreatedAt(SubSeq(voyages, 1, n - 1))
             v == voyages[n]
             before == SelectSeq(sorted, LAMBDA x : x.created_at <= v.created_at)
             after == SelectSeq(sorted, LAMBDA x : x.created_at > v.created_at)
         IN  before \o <<v>> \o after

ListFailures == {"none", "read_dir"}

\* list_voyages, lines 76-100: the voyages of the entries that are *.sqlite,
\* named by an identifier, and loaded without an error of the engine
ListedVoyages(files, entries) ==
    LET listed == SelectSeq(entries,
                      LAMBDA path :
                          /\ extension(path) = Some("sqlite")
                          /\ ParseUuid(file_stem(path)).ok
                          /\ LoadVoyage(files, ParseUuid(file_stem(path)).value).ok)
    IN  [i \in 1..Len(listed) |->
            LoadVoyage(files, ParseUuid(file_stem(listed[i])).value).value]

\* a list_voyages that answers the voyages in the order of the directory
list_voyages_unsorted(files, entries, fail) ==
    IF fail # "none"
    THEN [ok |-> FALSE, value |-> <<>>]
    ELSE [ok |-> TRUE, value |-> ListedVoyages(files, entries)]

\* Storage::list_voyages
list_voyages(files, entries, fail) ==
    IF fail # "none"
    THEN [ok |-> FALSE, value |-> <<>>]
    ELSE [ok |-> TRUE, value |-> SortByCreatedAt(ListedVoyages(files, entries))]

\* the characters of a rendered identifier
Chars(text) ==
    CASE text = VoyageId -> <<"0", "a", "1", "b">>
      [] text = OtherVoyageId -> <<"0", "a", "9", "f">>

\* the --voyage references a user may give: every prefix of a rendered
\* identifier, the empty one and the full one included, and prefixes of none
References ==
    {SubSeq(Chars(UuidToString(id)), 1, n) : id \in Uuids, n \in 0..4} \cup
        {<<"0", "b">>, <<"f">>}

\* reference.parse::<Uuid>()
ParseReference(reference) ==
    LET parsed == {id \in Uuids : Chars(UuidToString(id)) = reference}
    IN  IF parsed # {}
        THEN [ok |-> TRUE, value |-> CHOOSE id \in parsed : TRUE]
        ELSE [ok |-> FALSE, value |-> <<>>]

\* str::starts_with
starts_with(chars, prefix) ==
    /\ Len(prefix) <= Len(chars)
    /\ SubSeq(chars, 1, Len(prefix)) = prefix

ResolveFailures == {"none", "load", "list"}

\* a resolve_voyage that picks the first of the voyages a prefix matches
resolve_reference_first_match(files, reference, entries, fail) ==
    LET id == ParseReference(reference)
    IN  IF id.ok
        THEN LET v == IF fail = "load" THEN [ok |-> FALSE, value |-> "Db"]
                      ELSE LoadVoyage(files, id.value)
             IN  IF v.ok THEN [ok |-> TRUE, value |-> v.value, err |-> "none"]
                 ELSE [ok |-> FALSE, value |-> <<>>,
                       err |-> IF v.value = "VoyageNotFound"
                               THEN "voyage not found: VoyageNotFound"
                               ELSE "voyage not found: Db"]
        ELSE LET voyages == list_voyages(files, entries,
                                         IF fail = "list" THEN "read_dir" ELSE "none")
                 matches == SelectSeq(voyages.value,
                                LAMBDA v : starts_with(Chars(UuidToString(v.id)), reference))
             IN  IF ~voyages.ok
                 THEN [ok |-> FALSE, value |-> <<>>, err |-> "failed to list voyages"]
                 ELSE IF Len(matches) = 0
                 THEN [ok |-> FALSE, value |-> <<>>, err |-> "no voyage matching"]
                 ELSE [ok |-> TRUE, value |-> matches[1], err |-> "none"]

\* cli.rs, resolve_voyage, whole: a reference that parses as an identifier
\* is loaded; any other is matched as a prefix against the listed voyages,
\* and must match one
resolve_reference(files, reference, entries, fail) ==
    LET id == ParseReference(reference)
    IN  IF id.ok
        THEN LET v == IF fail = "load" THEN [ok |-> FALSE, value |-> "Db"]
                      ELSE LoadVoyage(files, id.value)
             IN  IF v.ok THEN [ok |-> TRUE, value |-> v.value, err |-> "none"]
                 ELSE [ok |-> FALSE, value |-> <<>>,
                       err |-> IF v.value = "VoyageNotFound"
                               THEN "voyage not found: VoyageNotFound"
                               ELSE "voyage not found: Db"]
        ELSE LET voyages == list_voyages(files, entries,
                                         IF fail = "list" THEN "read_dir" ELSE "none")
                 matches == SelectSeq(voyages.value,
                                LAMBDA v : starts_with(Chars(UuidToString(v.id)), reference))
             IN  IF ~voyages.ok
                 THEN [ok |-> FALSE, value |-> <<>>, err |-> "failed to list voyages"]
                 ELSE IF Len(matches) = 0
                 THEN [ok |-> FALSE, value |-> <<>>, err |-> "no voyage matching"]
                 ELSE IF Len(matches) = 1
                 THEN [ok |-> TRUE, value |-> matches[1], err |-> "none"]
                 ELSE [ok |-> FALSE, value |-> <<>>, err |-> "is ambiguous"]

(***************************************************************************)
(* The storage calls as steps of the voyage                                *)
(***************************************************************************)
SetDatabase(db) ==
    /\ artifacts' = db.artifacts
    /\ slate' = db.slate
    /\ logbook' = db.logbook
    /\ sqlite_sequence' = db.sqlite_sequence
    /\ bearing_observations' = db.bearing_observations
    /\ voyage' = db.voyage

\* the files under the storage root become the files given
SetFiles(files) ==
    /\ SetDatabase(files[VoyageId])
    /\ others' = [stem \in DOMAIN others |-> files[stem]]

\* the database behind a connection becomes db
WriteFile(conn, db) ==
    IF conn.ok THEN SetFiles([Files EXCEPT ![conn.path] = db]) ELSE SetFiles(Files)

Seals == {"record_steer", "record_log"}

NothingBefore == [present |-> FALSE, rowids |-> {}, failed_seal |-> FALSE]

\* the record kept of a call, on this voyage unless said otherwise; its
\* inputs, and what held before it, are kept when it succeeded, the step
\* that failed is kept for a seal
Called(op, ok, ret, input, step, before) ==
    [op |-> op, ok |-> ok, ret |-> ret, err |-> "none", loaded |-> <<>>,
     voyage |-> Uuid(VoyageId),
     seal_step |-> IF op \in Seals THEN step ELSE "none",
     input |-> IF ok THEN input ELSE <<>>,
     before |-> IF ok THEN before ELSE NothingBefore]

\* whether the target is on the slate, by the observations taken
Present(target) == \E i \in 1..Len(taken) : taken[i].target = target

\* whether the target is on the slate of a voyage: of this voyage by the
\* observations taken, of another by its slate
PresentOn(id, target) ==
    IF id = Uuid(VoyageId) THEN Present(target)
    ELSE /\ others[voyage_path(id)] # NoFile
         /\ \E r \in others[voyage_path(id)].slate : r.target = TargetJson(target)

\* the call was made on the voyage id
OnVoyage(id, call) == [call EXCEPT !.voyage = id]

\* the call answered the error err, or none
Answered(err, call) == [call EXCEPT !.err = err]

\* the call was given the input, kept also when it failed
Given(input, call) == [call EXCEPT !.input = input]

\* the call loaded the values given
Loaded(values, call) == [call EXCEPT !.loaded = values]

\* what cmd_observe writes to stdout or to the --out file: the observation
\* as JSON
Emitted(observation) == [json |-> observation]

\* the error a storage call answers: VoyageNotFound when the open found no
\* file, else the error of the engine or of a conversion, not told apart
ErrorOf(conn, r) ==
    IF ~conn.ok THEN "VoyageNotFound" ELSE IF r.ok THEN "none" ELSE "Db"

\* the state after create_voyage created the database of the voyage v
VoyageCreated(v) ==
    /\ artifacts = {}
    /\ slate = {}
    /\ logbook = {}
    /\ sqlite_sequence = 0
    /\ bearing_observations = {}
    /\ voyage = {VoyageRow(v)}
    /\ last = OnVoyage(v.id, Called("create_voyage", TRUE, FALSE, v, "none", NothingBefore))
    /\ taken = <<>>
    /\ world = 0

\* this voyage created, and no other file under the storage root
EmptyVoyage ==
    /\ VoyageCreated(NewVoyage(Uuid(VoyageId), "Fix crash", 1))
    /\ others = [stem \in {OtherVoyageId} |-> NoFile]

\* the targets of a set of observations
Targets(observations) == {o.target : o \in observations}

\* the callers of a run: the voyages they work on and those they seal, the
\* observations they take, the times they seal
\* at, the times they end the voyage at,
\* the voyages they write, and how far they go
Workload(observations, maxEntries) ==
    [observations |-> observations,
     ids |-> {Uuid(VoyageId)},
     sealed |-> {Uuid(VoyageId)},
     nows |-> {MaxTime},
     ends |-> Times,
     voyages |-> {[id |-> Uuid(VoyageId), status |-> Ended(MaxTime, None)],
                  [id |-> Uuid(OtherVoyageId), status |-> Ended(MaxTime, None)]},
     maxRowid |-> Cardinality(Targets(observations)) + MaxReplaced,
     maxEntries |-> maxEntries,
     maxPerformed |-> maxEntries + 1]

\* the callers of a slate-centred run: every replacement, erase and order
\* of four observations of three targets, never sealed
SlateWorkload ==
    Workload({o \in Observation :
                \/ o.target.kind = "GitHubIssue" /\ o.target.focus = <<"summary">>
                     /\ <<o.payload.kind, o.observed_at>> \in
                            {<<"DirectoryTree", 1>>, <<"Hold", MaxTime>>}
                \/ o.target.kind = "GitHubIssue" /\ o.target.focus = <<"comments">>
                     /\ <<o.payload.kind, o.observed_at>> = <<"DirectoryTree", 1>>
                \/ o.target.kind = "RustProject"
                     /\ <<o.payload.kind, o.observed_at>> = <<"Hold", MaxTime>>},
             0)

\* the callers of a seal-centred run: two targets that differ in the focus,
\* one of them observed with two payloads, in every order of observe and
\* erase, sealed up to MaxEntries times
SealWorkload ==
    Workload({o \in Observation :
                \/ o.target.kind = "GitHubIssue" /\ o.target.focus = <<"summary">>
                     /\ <<o.payload.kind, o.observed_at>> \in
                            {<<"DirectoryTree", 1>>, <<"Hold", MaxTime>>}
                \/ o.target.kind = "GitHubIssue" /\ o.target.focus = <<"comments">>
                     /\ <<o.payload.kind, o.observed_at>> = <<"DirectoryTree", 1>>},
             MaxEntries)

Init ==
    /\ EmptyVoyage
    /\ workload = SealWorkload

AppendSlate ==
    \E id \in workload.ids, observation \in workload.observations,
       fail \in AppendFailures :
        LET conn == open_db(Files, id)
            r == IF conn.ok THEN append_slate(conn.db, observation, fail)
                 ELSE VoyageNotFound
        IN  /\ conn.ok => NewRowid(conn.db.slate) <= workload.maxRowid
            /\ WriteFile(conn, r.db)
            /\ last' = OnVoyage(id, Answered(ErrorOf(conn, r),
                  Called("append_slate", r.ok, FALSE, observation, fail,
                      [NothingBefore EXCEPT
                      !.present = PresentOn(id, observation.target)])))
            /\ taken' = IF r.ok /\ id = Uuid(VoyageId)
                        THEN SelectSeq(taken, LAMBDA o : o.target # observation.target)
                                 \o <<observation>>
                        ELSE taken
            /\ UNCHANGED <<workload, world>>

EraseSlate ==
    \E id \in workload.ids, target \in Observe, fail \in EraseFailures :
        LET conn == open_db(Files, id)
            r == IF conn.ok THEN erase_slate(conn.db, target, fail) ELSE VoyageNotFound
        IN  /\ WriteFile(conn, r.db)
            /\ last' = OnVoyage(id, Answered(ErrorOf(conn, r),
                  Called("erase_slate", r.ok, r.ret, target, fail,
                      [NothingBefore EXCEPT
                      !.present = PresentOn(id, target)])))
            /\ taken' = IF r.ok /\ id = Uuid(VoyageId)
                        THEN SelectSeq(taken, LAMBDA o : o.target # target)
                        ELSE taken
            /\ UNCHANGED <<workload, world>>

ClearSlate ==
    \E id \in workload.ids, fail \in ClearFailures :
        LET conn == open_db(Files, id)
            r == IF conn.ok THEN clear_slate(conn.db, fail) ELSE VoyageNotFound
        IN  /\ WriteFile(conn, r.db)
            /\ last' = OnVoyage(id, Answered(ErrorOf(conn, r),
                  Called("clear_slate", r.ok, FALSE, <<>>, fail,
                      [NothingBefore EXCEPT
                      !.rowids = IF conn.ok
                      THEN {x.rowid : x \in conn.db.slate}
                      ELSE {}])))
            /\ taken' = IF r.ok /\ id = Uuid(VoyageId) THEN <<>> ELSE taken
            /\ UNCHANGED <<workload, world>>

\* what held before a seal: the rowids of the slate it seals, and whether
\* the call before it was a seal that failed
BeforeSeal ==
    [present |-> FALSE, rowids |-> {r.rowid : r \in slate},
     failed_seal |-> last.op \in Seals /\ ~last.ok]

\* what held before a seal on the database behind a connection
BeforeSealOf(conn) ==
    [BeforeSeal EXCEPT !.rowids = IF conn.ok THEN {r.rowid : r \in conn.db.slate} ELSE {}]

\* where the seal of the database behind a connection can fail
SealFailuresOf(conn) ==
    IF conn.ok THEN SealFailures(conn.db) ELSE {[step |-> "open", k |-> 0]}

RecordSteer ==
    \E id \in workload.sealed, steer \in Steer, now \in workload.nows :
        LET conn == open_db(Files, id)
        IN  \E fail \in SealFailuresOf(conn) :
                LET r == IF conn.ok
                         THEN record_steer(conn.db, steer, SteerArgs.summary,
                                           SteerArgs.identity, SteerArgs.role,
                                           SteerArgs.method, now, fail)
                         ELSE VoyageNotFound
                IN  /\ conn.ok => conn.db.sqlite_sequence < workload.maxEntries
                    /\ WriteFile(conn, r.db)
                    /\ last' = OnVoyage(id, Answered(ErrorOf(conn, r),
                          Called("record_steer", r.ok, FALSE,
                              [steer |-> steer, now |-> now],
                              fail.step, BeforeSealOf(conn))))
                    /\ taken' = IF r.ok /\ id = Uuid(VoyageId) THEN <<>> ELSE taken
                    /\ UNCHANGED <<workload, world>>

RecordLog ==
    \E id \in workload.sealed, status \in Statuses, now \in workload.nows :
        LET conn == open_db(Files, id)
        IN  \E fail \in SealFailuresOf(conn) :
                LET r == IF conn.ok
                         THEN record_log(conn.db, status, LogArgs.summary,
                                         LogArgs.identity, LogArgs.role,
                                         LogArgs.method, now, fail)
                         ELSE VoyageNotFound
                IN  /\ conn.ok => conn.db.sqlite_sequence < workload.maxEntries
                    /\ WriteFile(conn, r.db)
                    /\ last' = OnVoyage(id, Answered(ErrorOf(conn, r),
                          Called("record_log", r.ok, FALSE,
                              [status |-> status, now |-> now],
                              fail.step, BeforeSealOf(conn))))
                    /\ taken' = IF r.ok /\ id = Uuid(VoyageId) THEN <<>> ELSE taken
                    /\ UNCHANGED <<workload, world>>

UpdateVoyage ==
    \E v \in workload.voyages, fail \in UpdateFailures :
        LET conn == open_db(Files, v.id)
            r == IF conn.ok THEN update_voyage(conn.db, v, fail) ELSE VoyageNotFound
        IN  /\ WriteFile(conn, r.db)
            /\ last' = OnVoyage(v.id, Answered(r.err,
                                  Called("update_voyage", r.ok, FALSE, v, fail,
                                         NothingBefore)))
            /\ UNCHANGED <<taken, workload, world>>

\* slate-centred runs: the slate calls
NextSlate ==
    \/ AppendSlate
    \/ EraseSlate
    \/ ClearSlate

\* seal-centred runs: the slate calls and the seals
Next ==
    \/ NextSlate
    \/ RecordSteer
    \/ RecordLog

Spec == Init /\ [][Next]_vars

InitSlate ==
    /\ EmptyVoyage
    /\ workload = SlateWorkload

SpecSlate == InitSlate /\ [][NextSlate]_vars

\* the callers of a logbook-centred run: one target observed with two
\* payloads, sealed up to MaxLogEntries times
LogbookWorkload ==
    Workload({o \in SlateWorkload.observations :
                o.target.kind = "GitHubIssue" /\ o.target.focus = <<"summary">>},
             MaxLogEntries)

InitLogbook ==
    /\ EmptyVoyage
    /\ workload = LogbookWorkload

\* logbook-centred runs: every storage call
NextLogbook ==
    \/ Next
    \/ UpdateVoyage

SpecLogbook == InitLogbook /\ [][NextLogbook]_vars

\* the voyages a caller may create: active, and ended with and without an
\* outcome
NewVoyages ==
    [id : Uuids, intent : {"Fix crash"}, created_at : {1},
     status : {Active} \cup {Ended(MaxTime, status) : status \in EndStatuses}]

\* the voyages a caller may write over a stored one: of another intent and
\* creation time than any stored, active, and ended with and without an
\* outcome
UpdatedVoyages ==
    [id : Uuids, intent : {"Renamed"}, created_at : {MaxTime},
     status : {Active} \cup {Ended(MaxTime, status) : status \in EndStatuses}]

\* the callers of a run that creates voyages: one target observed on this
\* voyage, sealed up to MaxEntries times
CreateWorkload ==
    [Workload({o \in LogbookWorkload.observations : o.observed_at = 1}, MaxEntries)
        EXCEPT !.voyages = UpdatedVoyages]

InitCreate ==
    /\ EmptyVoyage
    /\ workload = CreateWorkload

CreateVoyage ==
    \E v \in NewVoyages, fail \in CreateFailures :
        LET r == create_voyage(Files, v, fail)
        IN  /\ SetFiles(r.files)
            /\ last' = OnVoyage(v.id, Answered(r.err,
                                  Called("create_voyage", r.ok, FALSE, v, fail,
                                         NothingBefore)))
            /\ UNCHANGED <<taken, workload, world>>

\* runs that create voyages: every storage call on this voyage, and the
\* creation of this and of another voyage
NextCreate ==
    \/ NextLogbook
    \/ CreateVoyage

SpecCreate == InitCreate /\ [][NextCreate]_vars

\* the callers of a run over two voyages: one target observed on both, this
\* voyage sealed up to MaxEntries times
FleetWorkload ==
    [Workload({o \in LogbookWorkload.observations : o.observed_at = 1}, MaxEntries)
        EXCEPT !.ids = Uuids]

\* create_voyage ran for both voyages
InitFleet ==
    /\ VoyageCreated(NewVoyage(Uuid(VoyageId), "Fix crash", 1))
    /\ others = [stem \in {OtherVoyageId} |->
                    [EmptyDatabase EXCEPT
                        !.voyage = {VoyageRow(NewVoyage(Uuid(stem), "Fix crash", 1))}]]
    /\ workload = FleetWorkload

\* runs over two voyages: every storage call
SpecFleet == InitFleet /\ [][NextLogbook]_vars

\* the callers of a run that calls on a voyage without a file: every
\* storage call, on this voyage and on the other, which is never created
MissingWorkload ==
    [CreateWorkload EXCEPT !.ids = Uuids, !.sealed = Uuids]

InitMissing ==
    /\ EmptyVoyage
    /\ workload = MissingWorkload

\* what a load answers when the engine fails
LoadFailed == [ok |-> FALSE, value |-> "Db"]

CallLoadVoyage ==
    \E id \in workload.ids, fail \in LoadFailures :
        LET conn == open_db(Files, id)
            r == IF conn.ok THEN load_voyage(conn.db, fail) ELSE VoyageNotFound
        IN  /\ WriteFile(conn, conn.db)
            /\ last' = OnVoyage(id, Answered(ErrorOf(conn, r),
                  Loaded(IF r.ok THEN <<r.value>> ELSE <<>>,
                         Called("load_voyage", r.ok, FALSE, <<>>, fail, NothingBefore))))
            /\ UNCHANGED <<taken, workload, world>>

CallLoadSlate ==
    \E id \in workload.ids, fail \in LoadFailures :
        LET conn == open_db(Files, id)
            r == IF ~conn.ok THEN VoyageNotFound
                 ELSE IF fail # "none" THEN LoadFailed
                 ELSE load_slate(conn.db)
        IN  /\ WriteFile(conn, conn.db)
            /\ last' = OnVoyage(id, Answered(ErrorOf(conn, r),
                  Loaded(IF r.ok THEN r.value ELSE <<>>,
                         Called("load_slate", r.ok, FALSE, <<>>, fail, NothingBefore))))
            /\ UNCHANGED <<taken, workload, world>>

CallLoadLogbook ==
    \E id \in workload.ids, fail \in LoadFailures :
        LET conn == open_db(Files, id)
            r == IF ~conn.ok THEN VoyageNotFound
                 ELSE IF fail # "none" THEN LoadFailed
                 ELSE load_logbook(conn.db)
        IN  /\ WriteFile(conn, conn.db)
            /\ last' = OnVoyage(id, Answered(ErrorOf(conn, r),
                  Loaded(IF r.ok THEN r.value ELSE <<>>,
                         Called("load_logbook", r.ok, FALSE, <<>>, fail, NothingBefore))))
            /\ UNCHANGED <<taken, workload, world>>

\* runs that call on a voyage without a file: every storage call and every
\* load
NextMissing ==
    \/ NextLogbook
    \/ CallLoadVoyage
    \/ CallLoadSlate
    \/ CallLoadLogbook

SpecMissing == InitMissing /\ [][NextMissing]_vars

\* a database whose voyage row does not decode: created_at is no timestamp
UnreadableVoyage(id) ==
    [EmptyDatabase EXCEPT
        !.voyage = {[VoyageRow(NewVoyage(id, "Fix crash", 1)) EXCEPT
                        !.created_at = "yesterday"]}]

\* the database create_voyage makes of a voyage
CreatedDatabase(v) == [EmptyDatabase EXCEPT !.voyage = {VoyageRow(v)}]

\* a storage root to list: this voyage created at any time; the other not
\* there, without a voyage row, with a row that does not decode, or created
\* at any time; a copy of the other's database under a name that is no
\* identifier, and a leftover of the JSONL store, there or not
InitList ==
    /\ \E now \in Times : VoyageCreated(NewVoyage(Uuid(VoyageId), "Fix crash", now))
    /\ \E other \in {NoFile, EmptyDatabase, UnreadableVoyage(Uuid(OtherVoyageId))} \cup
                      {CreatedDatabase(NewVoyage(Uuid(OtherVoyageId), "Other", now)) :
                          now \in Times},
          notes \in {NoFile, CreatedDatabase(NewVoyage(Uuid(OtherVoyageId), "Other", 1))},
          legacy \in {NoFile, CreatedDatabase(NewVoyage(Uuid(OtherVoyageId), "Other", 1))} :
            others = (OtherVoyageId :> other) @@ (NotesPath :> notes) @@
                     (LegacyPath :> legacy)
    /\ workload = [CreateWorkload EXCEPT !.ids = {}, !.sealed = {}]

ListVoyages ==
    \E entries \in read_dir(Files), fail \in ListFailures :
        LET r == list_voyages(Files, entries, fail)
        IN  /\ SetFiles(Files)
            /\ last' = Answered(IF r.ok THEN "none" ELSE "Io",
                           Loaded(r.value,
                                  Called("list_voyages", r.ok, FALSE, entries, fail,
                                         NothingBefore)))
            /\ UNCHANGED <<taken, workload, world>>

\* runs that list the storage root: voyages are created, updated and listed
NextList ==
    \/ CreateVoyage
    \/ UpdateVoyage
    \/ ListVoyages

SpecList == InitList /\ [][NextList]_vars

ResolveVoyage ==
    \E reference \in References, entries \in read_dir(Files), fail \in ResolveFailures :
        LET r == resolve_reference(Files, reference, entries, fail)
        IN  /\ SetFiles(Files)
            /\ last' = Answered(r.err,
                           Loaded(IF r.ok THEN <<r.value>> ELSE <<>>,
                                  Given(reference,
                                        Called("resolve_voyage", r.ok, FALSE, reference,
                                               fail, NothingBefore))))
            /\ UNCHANGED <<taken, workload, world>>

\* runs that resolve references: voyages are created and referred to
NextResolve ==
    \/ CreateVoyage
    \/ ResolveVoyage

SpecResolve == InitList /\ [][NextResolve]_vars

\* the callers of a run that resolves identities: with and without --as,
\* HELM_IDENTITY and a home directory, the values empty or not, over every
\* config file
InitIdentity ==
    /\ VoyageCreated(NewVoyage(Uuid(VoyageId), "Fix crash", 1))
    /\ \E explicit \in {None, Some(""), Some("alice")},
          env_val \in {None, Some(""), Some("bob")},
          config_path \in {None, Some(ConfigPath)} :
            workload = [explicit |-> explicit, env_val |-> env_val,
                        config_path |-> config_path]
    /\ \E file \in {NoFile, Unreadable} \cup
                     {FileOfContents(contents) : contents \in ConfigContents} :
            others = (OtherVoyageId :> NoFile) @@ (ConfigPath :> file)

ResolveIdentity ==
    LET r == resolve_inner(others, workload.explicit, workload.env_val,
                           workload.config_path)
    IN  /\ last' = Answered(r.err, Loaded(r.value,
                        Called("resolve_identity", r.ok, FALSE, <<>>, "none",
                               NothingBefore)))
        /\ UNCHANGED <<artifacts, slate, logbook, sqlite_sequence, bearing_observations,
                       voyage, taken, workload, others, world>>

\* runs that resolve identities
NextIdentity ==
    \/ ResolveIdentity

SpecIdentity == InitIdentity /\ [][NextIdentity]_vars

\* the callers of a run that observes: every target, with and without a gh
\* config directory, gh answering or failing, over files that are missing,
\* unreadable, empty, text and not UTF-8
InitObserve ==
    /\ VoyageCreated(NewVoyage(Uuid(VoyageId), "Fix crash", 1))
    /\ \E target \in ObserveTargets, gh_config_dir \in {None, Some("gh-config/alice")},
          gh \in {"ok", "fails"} :
            workload = [target |-> target, gh_config_dir |-> gh_config_dir, gh |-> gh]
    /\ \E text \in {NoFile, Unreadable} \cup {FileOfContents(b) : b \in FileBytes},
          binary \in {NoFile, Unreadable} \cup {FileOfContents(b) : b \in FileBytes} :
            others = (TextPath :> text) @@ (BinaryPath :> binary)

ObserveTarget ==
    LET r == observe(others, workload.gh, workload.target, workload.gh_config_dir)
    IN  /\ last' = Answered(IF r.returned THEN "none" ELSE "panicked",
                        Loaded(IF r.returned THEN <<r.payload>> ELSE <<>>,
                               Called("observe", r.returned, FALSE, <<>>, "none",
                                      NothingBefore)))
        /\ UNCHANGED <<artifacts, slate, logbook, sqlite_sequence, bearing_observations,
                       voyage, taken, workload, others, world>>

\* runs that observe
NextObserve ==
    \/ ObserveTarget

SpecObserve == InitObserve /\ [][NextObserve]_vars

\* the callers of a run whose clock moves on between observations: two
\* targets observed at every time, sealed up to MaxLogEntries times
OnceWorkload ==
    Workload({o \in Observation :
                o.target.kind = "GitHubIssue" /\ o.payload.kind = "DirectoryTree"},
             MaxLogEntries)

InitOnce ==
    /\ EmptyVoyage
    /\ workload = OnceWorkload

\* the time is later than that of every observation on the slate and in a
\* bearing
Fresh(observed_at) ==
    \A r \in slate \cup bearing_observations :
        ParseTimestamp(r.observed_at).value < observed_at

\* an observation is taken when the clock reads a time later than that of
\* every observation kept, and appended to the slate
ObserveNow ==
    /\ AppendSlate
    /\ last'.ok => Fresh(last'.input.observed_at)

\* runs whose clock moves on between observations: observe, erase, clear
\* and seal
NextOnce ==
    \/ ObserveNow
    \/ EraseSlate
    \/ ClearSlate
    \/ RecordSteer
    \/ RecordLog

SpecOnce == InitOnce /\ [][NextOnce]_vars

\* a builder was made; no voyage is involved
InitBearing ==
    /\ VoyageCreated(NewVoyage(Uuid(VoyageId), "Fix crash", 1))
    /\ workload = [paths |-> BearingPaths, texts |-> PositionTexts, nows |-> {MaxTime}]
    /\ others = NewBuilder

\* a call on the builder answered r
BuilderCalled(op, input, r) ==
    /\ others' = r.builder
    /\ last' = Answered(r.err, Given(input, Loaded(r.value,
                    Called(op, r.ok, FALSE, input, "none", NothingBefore))))
    /\ UNCHANGED <<artifacts, slate, logbook, sqlite_sequence, bearing_observations,
                   voyage, taken, workload, world>>

New ==
    /\ others.moved
    /\ BuilderCalled("new", <<>>, Returned(NewBuilder))

AddScope ==
    \E path \in workload.paths :
        /\ ~others.moved
        /\ Len(others.scope) < MaxPaths
        /\ BuilderCalled("add_scope", path, add_scope(others, path))

FinishScope ==
    /\ ~others.moved
    /\ BuilderCalled("finish_scope", <<>>, finish_scope(others))

AddFocus ==
    \E path \in workload.paths :
        /\ ~others.moved
        /\ Len(others.focus) < MaxPaths
        /\ BuilderCalled("add_focus", path, add_focus(others, path))

FinishFocus ==
    /\ ~others.moved
    /\ BuilderCalled("finish_focus", <<>>, finish_focus(others))

AcknowledgeMoment ==
    /\ ~others.moved
    /\ BuilderCalled("acknowledge_moment", <<>>, acknowledge_moment(others))

SetPosition ==
    \E text \in workload.texts, now \in workload.nows :
        /\ ~others.moved
        /\ BuilderCalled("set_position", text, set_position(others, text, now))

\* runs that build bearings: every step of the builder called in every phase
NextBearing ==
    \/ New
    \/ AddScope
    \/ FinishScope
    \/ AddFocus
    \/ FinishFocus
    \/ AcknowledgeMoment
    \/ SetPosition

SpecBearing == InitBearing /\ [][NextBearing]_vars

(***************************************************************************)
(* tui/screens/bearing.rs, tui/app.rs                                      *)
(***************************************************************************)
\* the characters typed on the bearing screen
TypedChars == {" ", "a"}

\* Step
Steps == <<"Scope", "Focus", "ViewMoment", "EnterPosition">>

\* BearingFlow::new; returned tells that on_enter gave the flow's result
NewFlow ==
    [step |-> "Scope", scope |-> <<>>, focus |-> <<>>, input |-> <<>>,
     moment |-> None, plan |-> None, scroll_offset |-> 0, returned |-> FALSE]

\* BearingFlow::on_char
on_char(flow, c) ==
    IF flow.step = "ViewMoment" THEN flow
    ELSE [flow EXCEPT !.input = Append(@, c)]

\* BearingFlow::on_backspace: String::pop
on_backspace(flow) ==
    IF flow.step = "ViewMoment" \/ flow.input = <<>> THEN flow
    ELSE [flow EXCEPT !.input = SubSeq(@, 1, Len(@) - 1)]

\* BearingFlow::on_scroll_up
on_scroll_up(flow) ==
    IF flow.step = "ViewMoment" /\ flow.scroll_offset > 0
    THEN [flow EXCEPT !.scroll_offset = @ - 1]
    ELSE flow

\* BearingFlow::on_scroll_down
on_scroll_down(flow) ==
    IF flow.step = "ViewMoment"
    THEN [flow EXCEPT !.scroll_offset = @ + 1]
    ELSE flow

\* BearingFlow::execute: the plan of the paths entered and the moment
\* observed for it, one survey per scope path and one inspection per focus
\* path
execute(flow) ==
    [flow EXCEPT
        !.moment = Some([surveyed |-> flow.scope, inspected |-> flow.focus]),
        !.plan = Some([scope |-> flow.scope, focus |-> flow.focus]),
        !.scroll_offset = 0]

\* what on_enter answers: the flow after it, the result if the flow is
\* complete, the message of the expect that failed if one did
Entered(flow) == [flow |-> flow, result |-> None, panic |-> "none"]
Completed(flow, bearing) ==
    [flow |-> [flow EXCEPT !.returned = TRUE], result |-> Some(bearing),
     panic |-> "none"]
ExpectFailed(flow, message) == [flow |-> flow, result |-> None, panic |-> message]

\* BearingFlow::on_enter: in Scope and Focus a path is pushed, or the step
\* is left on an empty line (Scope needs a path, leaving Focus executes the
\* plan); ViewMoment moves on; EnterPosition takes the plan and the moment
\* out of the flow and returns the bearing, for a text that is not blank
on_enter(flow, now) ==
    LET trimmed == trim(flow.input)
    IN  CASE flow.step = "Scope" ->
                IF trimmed = <<>>
                THEN IF flow.scope = <<>>
                     THEN Entered(flow)
                     ELSE Entered([flow EXCEPT !.step = "Focus", !.input = <<>>])
                ELSE Entered([flow EXCEPT !.scope = Append(@, trimmed),
                                          !.input = <<>>])
          [] flow.step = "Focus" ->
                IF trimmed # <<>>
                THEN Entered([flow EXCEPT !.focus = Append(@, trimmed),
                                          !.input = <<>>])
                ELSE Entered([execute([flow EXCEPT !.input = <<>>])
                                EXCEPT !.step = "ViewMoment"])
          [] flow.step = "ViewMoment" ->
                Entered([flow EXCEPT !.step = "EnterPosition", !.input = <<>>])
          [] OTHER ->
                IF trimmed = <<>>
                THEN Entered(flow)
                ELSE IF flow.plan = None
                THEN ExpectFailed(flow, "plan should exist")
                ELSE IF flow.moment = None
                THEN ExpectFailed([flow EXCEPT !.plan = None], "moment should exist")
                ELSE Completed([flow EXCEPT !.plan = None, !.moment = None],
                               [plan |-> flow.plan[1], moment |-> flow.moment[1],
                                position |-> [text |-> trimmed, history |-> <<>>],
                                taken_at |-> now])

\* MENU_ITEMS of the voyage screen
MenuItems == <<"Take Bearing", "Correct Position", "Correct Course", "Take Action">>

\* the screens of the application, with what the storage holds: the
\* voyages created (all active, in creation order) and the number of
\* entries appended to the logbooks
OnHomeScreen(tui) ==
    [tui EXCEPT !.screen = "Home", !.selected = 0, !.voyage = "none",
                !.flow = NewFlow]
OnVoyageScreen(tui, id) ==
    [tui EXCEPT !.screen = "Voyage", !.selected = 0, !.voyage = id,
                !.flow = NewFlow]
OnBearingScreen(tui) == [tui EXCEPT !.screen = "Bearing", !.flow = NewFlow]
Exited(tui, err) == [OnHomeScreen(tui) EXCEPT !.screen = "Exited", !.err = err]
Aborted(tui, message) == [tui EXCEPT !.screen = "Panicked", !.err = message]

\* run: the event loop starts on the home screen
StartedTui(voyages, entries) ==
    [screen |-> "Home", selected |-> 0, voyage |-> "none", flow |-> NewFlow,
     voyages |-> voyages, entries |-> entries, err |-> "none"]

\* HomeScreen::new: the active voyages and the "new" option
HomeItems(tui) == tui.voyages \o <<"NewOpenWaters">>

\* a bearing screen that stays after its flow returned the result
bearing_entered_keeps_flow(tui, r, fail) ==
    IF r.panic # "none" THEN Aborted([tui EXCEPT !.flow = r.flow], r.panic)
    ELSE IF r.result = None THEN [tui EXCEPT !.flow = r.flow]
    ELSE IF fail = "append_entry" THEN Exited(tui, "Io")
    ELSE [tui EXCEPT !.flow = r.flow, !.entries = @ + 1]

\* event_loop, Enter on the bearing screen: a result of on_enter is
\* appended to the logbook of the voyage and the voyage screen comes back;
\* a failed expect unwinds out of the loop
bearing_entered(tui, r, fail) ==
    IF r.panic # "none" THEN Aborted([tui EXCEPT !.flow = r.flow], r.panic)
    ELSE IF r.result = None THEN [tui EXCEPT !.flow = r.flow]
    ELSE IF fail = "append_entry" THEN Exited(tui, "Io")
    ELSE OnVoyageScreen([tui EXCEPT !.entries = @ + 1], tui.voyage)

\* event_loop, Enter on the home screen: the voyage selected is loaded, or
\* an open-waters voyage of a fresh identifier is created
home_entered(tui, fresh, fail) ==
    LET item == HomeItems(tui)[tui.selected + 1]
    IN  IF item = "NewOpenWaters"
        THEN IF fail = "create_voyage" THEN Exited(tui, "Io")
             ELSE OnVoyageScreen([tui EXCEPT !.voyages = Append(@, fresh)], fresh)
        ELSE IF fail = "load_voyage" THEN Exited(tui, "Io")
             ELSE OnVoyageScreen(tui, item)

\* the application was started on a storage root that holds this voyage
InitTui ==
    /\ VoyageCreated(NewVoyage(Uuid(VoyageId), "Fix crash", 1))
    /\ workload = [chars |-> TypedChars, nows |-> {MaxTime}, fresh |-> {OtherVoyageId}]
    /\ others = StartedTui(<<VoyageId>>, 0)

\* a key was handled: the screen after it; of on_enter the answer is kept
KeyHandled(op, r, tui) ==
    /\ others' = tui
    /\ last' = Answered(r.panic, Loaded(r.result,
                    Called(op, r.panic = "none", r.result # None, <<>>, "none",
                           NothingBefore)))
    /\ UNCHANGED <<artifacts, slate, logbook, sqlite_sequence, bearing_observations,
                   voyage, taken, workload, world>>

\* run, after the loop was left
Run ==
    /\ others.screen \in {"Exited", "Panicked"}
    /\ \E fail \in {"none", "list_voyages"} :
          KeyHandled("run", Entered(NewFlow),
                     IF fail = "none"
                     THEN StartedTui(others.voyages, others.entries)
                     ELSE Exited(others, "Io"))

HomeQuit ==
    /\ others.screen = "Home"
    /\ KeyHandled("quit", Entered(NewFlow), Exited(others, "none"))

\* HomeScreen::move_up, HomeScreen::move_down
HomeMove ==
    /\ others.screen = "Home"
    /\ \/ /\ others.selected > 0
          /\ KeyHandled("move_up", Entered(NewFlow),
                        [others EXCEPT !.selected = @ - 1])
       \/ /\ others.selected + 1 < Len(HomeItems(others))
          /\ KeyHandled("move_down", Entered(NewFlow),
                        [others EXCEPT !.selected = @ + 1])

HomeEnter ==
    /\ others.screen = "Home"
    /\ \E fresh \in workload.fresh, fail \in {"none", "load_voyage", "create_voyage"} :
          /\ HomeItems(others)[others.selected + 1] = "NewOpenWaters" =>
                /\ \A i \in 1..Len(others.voyages) : others.voyages[i] # fresh
                /\ fail # "load_voyage"
          /\ HomeItems(others)[others.selected + 1] # "NewOpenWaters" =>
                fail # "create_voyage"
          /\ KeyHandled("select", Entered(NewFlow), home_entered(others, fresh, fail))

VoyageQuit ==
    /\ others.screen = "Voyage"
    /\ KeyHandled("quit", Entered(NewFlow), Exited(others, "none"))

\* Esc on the voyage screen: load_home_screen
VoyageEsc ==
    /\ others.screen = "Voyage"
    /\ \E fail \in {"none", "list_voyages"} :
          KeyHandled("esc", Entered(NewFlow),
                     IF fail = "none" THEN OnHomeScreen(others)
                     ELSE Exited(others, "Io"))

\* VoyageScreen::move_up, VoyageScreen::move_down
VoyageMove ==
    /\ others.screen = "Voyage"
    /\ \/ /\ others.selected > 0
          /\ KeyHandled("move_up", Entered(NewFlow),
                        [others EXCEPT !.selected = @ - 1])
       \/ /\ others.selected + 1 < Len(MenuItems)
          /\ KeyHandled("move_down", Entered(NewFlow),
                        [others EXCEPT !.selected = @ + 1])

\* Enter on the voyage screen: Take Bearing opens a new flow, the other
\* items do nothing
VoyageEnter ==
    /\ others.screen = "Voyage"
    /\ KeyHandled("select", Entered(NewFlow),
                  IF others.selected = 0 THEN OnBearingScreen(others) ELSE others)

BearingEsc ==
    /\ others.screen = "Bearing"
    /\ KeyHandled("esc", Entered(NewFlow), OnVoyageScreen(others, others.voyage))

\* Enter on the bearing screen; paths are pushed up to MaxPaths and entries
\* appended up to MaxEntries
BearingEnter ==
    /\ others.screen = "Bearing"
    /\ \E now \in workload.nows, fail \in {"none", "append_entry"} :
          LET r == on_enter(others.flow, now)
          IN  /\ Len(r.flow.scope) + Len(r.flow.focus) <= MaxPaths
              /\ r.result # None => others.entries < MaxEntries
              /\ fail # "none" => r.result # None
              /\ KeyHandled("on_enter", r, bearing_entered(others, r, fail))

BearingBackspace ==
    /\ others.screen = "Bearing"
    /\ KeyHandled("on_backspace", Entered(NewFlow),
                  [others EXCEPT !.flow = on_backspace(@)])

BearingScrollUp ==
    /\ others.screen = "Bearing"
    /\ KeyHandled("on_scroll_up", Entered(NewFlow),
                  [others EXCEPT !.flow = on_scroll_up(@)])

BearingScrollDown ==
    /\ others.screen = "Bearing"
    /\ others.flow.scroll_offset < MaxInput
    /\ KeyHandled("on_scroll_down", Entered(NewFlow),
                  [others EXCEPT !.flow = on_scroll_down(@)])

BearingChar ==
    /\ others.screen = "Bearing"
    /\ Len(others.flow.input) < MaxInput
    /\ \E c \in workload.chars :
          KeyHandled("on_char", Entered(NewFlow),
                     [others EXCEPT !.flow = on_char(@, c)])

\* runs of the application: every key on every screen
NextTui ==
    \/ Run
    \/ HomeQuit
    \/ HomeMove
    \/ HomeEnter
    \/ VoyageQuit
    \/ VoyageEsc
    \/ VoyageMove
    \/ VoyageEnter
    \/ BearingEsc
    \/ BearingEnter
    \/ BearingBackspace
    \/ BearingScrollUp
    \/ BearingScrollDown
    \/ BearingChar

SpecTui == InitTui /\ [][NextTui]_vars

(***************************************************************************)
(* Two processes on one voyage: an observe and a seal                      *)
(***************************************************************************)
\* the journal modes a connection may have been opened with
JournalModes == {"delete", "wal"}

\* a connection without a statement or a transaction under way; the
\* observer keeps the observation it appends, the sealer the rows it read
\* and the database as its transaction sees it
IdleObserver(observation) ==
    [pc |-> "idle", lock |-> "none", stale |-> FALSE, observation |-> observation]
IdleSealer ==
    [pc |-> "idle", lock |-> "none", stale |-> FALSE, slate_rows |-> <<>>,
     tx |-> EmptyDatabase]

\* the engine's locks. A read lock is given beside a writer that is not
\* waiting to commit; a write lock is given to one connection at a time, and
\* in WAL mode not to a transaction whose snapshot is behind the database;
\* a commit in rollback-journal mode waits for the read locks of the others
CanRead(journal_mode, other) ==
    journal_mode = "wal" \/ other.lock # "pending"
CanWrite(journal_mode, conn, other) ==
    /\ other.lock \notin {"reserved", "pending"}
    /\ journal_mode = "wal" => ~conn.stale
CanCommit(journal_mode, other) ==
    journal_mode = "wal" \/ other.lock # "shared"

\* a record_entry that reads the slate before it begins the transaction:
\* no read lock is kept
SelectBeforeTransaction(conn, db) ==
    [conn EXCEPT !.pc = "insert_logbook", !.lock = "none", !.stale = FALSE,
                 !.slate_rows = SelectSlateRows(db), !.tx = db]

\* record_entry, lines 124-138: the SELECT is the first statement of the
\* transaction; its read lock (the snapshot in WAL mode) is kept until the
\* transaction ends
SelectInTransaction(conn, db) ==
    [conn EXCEPT !.pc = "insert_logbook", !.lock = "shared", !.stale = FALSE,
                 !.slate_rows = SelectSlateRows(db), !.tx = db]

\* record_entry, lines 140-146: the INSERT INTO logbook takes the write
\* lock; a transaction that holds no read lock starts on the database as
\* it is now
InsertLogbookInTransaction(conn, db, status, now) ==
    [conn EXCEPT !.pc = "copy", !.lock = "reserved",
                 !.tx = InsertLogbook(IF conn.lock = "none" THEN db ELSE @,
                                      TimestampToString(now), LogArgs.identity,
                                      LogActionJson(status), LogArgs.summary,
                                      LogArgs.role, LogArgs.method)]

\* record_entry, lines 148-157: the rows read are copied and the slate is
\* deleted, inside the transaction
CopyAndDeleteInTransaction(conn) ==
    [conn EXCEPT !.pc = "commit",
                 !.tx = DeleteSlate(CopySlateRows(@, @.sqlite_sequence,
                                                  conn.slate_rows,
                                                  Len(conn.slate_rows)))]

\* the callers: two observations of one target and one of another, sealed
\* up to MaxEntries times
SharedWorkload ==
    Workload({o \in Observation :
                /\ o.target.kind = "GitHubIssue" /\ o.payload.kind = "DirectoryTree"
                /\ o.target.focus = <<"summary">> \/ o.observed_at = 1},
             MaxEntries)

InitShared ==
    /\ VoyageCreated(NewVoyage(Uuid(VoyageId), "Fix crash", 1))
    /\ workload = SharedWorkload
    /\ \E journal_mode \in JournalModes :
          others = [journal_mode |-> journal_mode,
                    observer |-> IdleObserver(CHOOSE o \in SharedWorkload.observations : TRUE),
                    sealer |-> IdleSealer]

\* a step of one of the processes: the database, the connections, and the
\* call that returned if one did
Stepped(db, observer, sealer, call) ==
    /\ SetDatabase(db)
    /\ others' = [others EXCEPT !.observer = observer, !.sealer = sealer]
    /\ last' = call
    /\ UNCHANGED <<workload, world>>

\* what was observed last for each target
Observing(observation) ==
    SelectSeq(taken, LAMBDA o : o.target # observation.target) \o <<observation>>

\* append_slate, lines 20-24: the connection is opened
ObserverOpens ==
    \E observation \in workload.observations :
        /\ others.observer.pc = "idle"
        /\ NewRowid(slate) <= workload.maxRowid
        /\ taken' = taken
        /\ Stepped(Database, [IdleObserver(observation) EXCEPT !.pc = "insert_blob"],
                   others.sealer, last)

\* a statement of append_slate takes the write lock
ObserverWrites ==
    /\ others.observer.pc \in {"insert_blob", "upsert"}
    /\ others.observer.lock = "none"
    /\ CanWrite(others.journal_mode, others.observer, others.sealer)
    /\ taken' = taken
    /\ Stepped(Database, [others.observer EXCEPT !.lock = "reserved"],
               others.sealer, last)

\* the commit of the statement waits for the read lock of the sealer, and
\* keeps new read locks out
ObserverWaits ==
    /\ others.observer.pc \in {"insert_blob", "upsert"}
    /\ others.observer.lock = "reserved"
    /\ ~CanCommit(others.journal_mode, others.sealer)
    /\ taken' = taken
    /\ Stepped(Database, [others.observer EXCEPT !.lock = "pending"],
               others.sealer, last)

\* the statement commits: INSERT OR IGNORE INTO blobs, then INSERT OR
\* REPLACE INTO slate, after which append_slate returns Ok; a snapshot of
\* the sealer is behind the database once the database changed
ObserverCommits ==
    LET observation == others.observer.observation
        db == IF others.observer.pc = "insert_blob"
              THEN [Database EXCEPT !.artifacts =
                       InsertOrIgnoreBlob(@, PayloadHash(observation),
                                          ZstdEncode(PayloadJson(observation.payload)))]
              ELSE [Database EXCEPT !.slate =
                       InsertOrReplaceSlate(@, TargetJson(observation.target),
                                            PayloadHash(observation),
                                            TimestampToString(observation.observed_at))]
        sealer == IF others.sealer.lock = "shared" /\ db # Database
                  THEN [others.sealer EXCEPT !.stale = TRUE]
                  ELSE others.sealer
    IN  /\ others.observer.pc \in {"insert_blob", "upsert"}
        /\ others.observer.lock \in {"reserved", "pending"}
        /\ CanCommit(others.journal_mode, others.sealer)
        /\ IF others.observer.pc = "insert_blob"
           THEN /\ taken' = taken
                /\ Stepped(db, [others.observer EXCEPT !.pc = "upsert", !.lock = "none"],
                           sealer, last)
           ELSE /\ taken' = Observing(observation)
                /\ Stepped(db, IdleObserver(observation), sealer,
                           Called("append_slate", TRUE, FALSE, observation, "none",
                                  NothingBefore))

\* the engine answers busy to a statement of append_slate that waits for a
\* lock: append_slate returns the error
ObserverBusy ==
    /\ others.observer.pc \in {"insert_blob", "upsert"}
    /\ \/ /\ others.observer.lock = "none"
          /\ ~CanWrite(others.journal_mode, others.observer, others.sealer)
       \/ /\ others.observer.lock \in {"reserved", "pending"}
          /\ ~CanCommit(others.journal_mode, others.sealer)
    /\ taken' = taken
    /\ Stepped(Database, IdleObserver(others.observer.observation), others.sealer,
               Answered("Db", Called("append_slate", FALSE, FALSE, <<>>,
                                     others.observer.pc, NothingBefore)))

\* record_entry, lines 124-125: open_voyage and conn.transaction()
SealerBegins ==
    /\ others.sealer.pc = "idle"
    /\ sqlite_sequence < workload.maxEntries
    /\ taken' = taken
    /\ Stepped(Database, others.observer, [IdleSealer EXCEPT !.pc = "select"], last)

SealerSelects ==
    /\ others.sealer.pc = "select"
    /\ CanRead(others.journal_mode, others.observer)
    /\ taken' = taken
    /\ Stepped(Database, others.observer,
               SelectInTransaction(others.sealer, Database), last)

SealerInsertsLogbook ==
    \E status \in Statuses, now \in workload.nows :
        /\ others.sealer.pc = "insert_logbook"
        /\ CanWrite(others.journal_mode, others.sealer, others.observer)
        /\ taken' = taken
        /\ Stepped(Database, others.observer,
                   InsertLogbookInTransaction(others.sealer, Database, status, now),
                   last)

SealerCopiesAndDeletes ==
    /\ others.sealer.pc = "copy"
    /\ taken' = taken
    /\ Stepped(Database, others.observer, CopyAndDeleteInTransaction(others.sealer),
               last)

\* record_entry, line 158: tx.commit()
SealerCommits ==
    /\ others.sealer.pc = "commit"
    /\ CanCommit(others.journal_mode, others.observer)
    /\ taken' = taken
    /\ Stepped(others.sealer.tx, others.observer, IdleSealer,
               Called("record_log", TRUE, FALSE, <<>>, "none", NothingBefore))

\* the engine answers busy to the SELECT that waits for the read lock, and
\* to the INSERT INTO logbook: to a transaction that waits for the write
\* lock, and at once to one whose snapshot is behind the database;
\* record_entry returns the error and the dropped transaction is rolled back
SealerBusy ==
    /\ \/ /\ others.sealer.pc = "select"
          /\ ~CanRead(others.journal_mode, others.observer)
       \/ /\ others.sealer.pc = "insert_logbook"
          /\ ~CanWrite(others.journal_mode, others.sealer, others.observer)
    /\ taken' = taken
    /\ Stepped(DropTransaction(Database, others.sealer.tx), others.observer, IdleSealer,
               Answered("Db", Called("record_log", FALSE, FALSE, <<>>,
                                     others.sealer.pc, NothingBefore)))

\* runs of an observe and a seal in two processes, step by step
NextShared ==
    \/ ObserverOpens
    \/ ObserverWrites
    \/ ObserverWaits
    \/ ObserverCommits
    \/ ObserverBusy
    \/ SealerBegins
    \/ SealerSelects
    \/ SealerInsertsLogbook
    \/ SealerCopiesAndDeletes
    \/ SealerCommits
    \/ SealerBusy

SpecShared == InitShared /\ [][NextShared]_vars

(***************************************************************************)
(* The commands as steps of the voyage                                     *)
(***************************************************************************)
\* what a command answers when the voyage it names does not load
NotResolved(db) ==
    [db |-> db, ok |-> FALSE, err |-> "voyage not found", stored |-> FALSE,
     emitted |-> FALSE]

\* the callers of a command-centred run: one target observed, sealed up to
\* MaxEntries times, ended at every time
CliWorkload ==
    Workload({o \in LogbookWorkload.observations : o.observed_at = 1}, MaxEntries)

\* `voyage new` ran when the clock read MaxTime
InitCli ==
    /\ VoyageCreated(NewVoyage(Uuid(VoyageId), "Fix crash", MaxTime))
    /\ others = [stem \in {OtherVoyageId} |-> NoFile]
    /\ workload = CliWorkload

CmdEnd ==
    \E status \in EndStatuses, now \in workload.ends,
       fail \in UpdateFailures \cup {"load"} :
        /\ LET v == resolve_voyage(Database, LoadFailure(fail))
               r == IF v.ok THEN cmd_end(Database, v.value, status, now, fail)
                    ELSE NotResolved(Database)
           IN  /\ SetDatabase(r.db)
               /\ last' = Answered(r.err,
                                   Called("cmd_end", r.ok, FALSE,
                                          [status |-> status, now |-> now],
                                          fail, NothingBefore))
        /\ UNCHANGED <<taken, workload, others, world>>

CmdObserve ==
    \E observation \in workload.observations, fail \in ObserveFailures :
        /\ NewRowid(slate) <= workload.maxRowid
        /\ LET v == resolve_voyage(Database, LoadFailure(fail))
               r == IF v.ok THEN cmd_observe(Database, v.value, observation, fail)
                    ELSE NotResolved(Database)
           IN  /\ SetDatabase(r.db)
               /\ last' = Answered(r.err, Given(observation,
                              Loaded(IF r.emitted THEN <<Emitted(observation)>> ELSE <<>>,
                                   Called("cmd_observe", r.ok, FALSE, observation, fail,
                                          [NothingBefore EXCEPT
                                              !.present = Present(observation.target)]))))
               /\ taken' = IF r.stored
                           THEN SelectSeq(taken, LAMBDA o : o.target # observation.target)
                                    \o <<observation>>
                           ELSE taken
        /\ UNCHANGED <<workload, others, world>>

CmdErase ==
    \E target \in Targets(workload.observations), fail \in EraseFailures \cup {"load"} :
        /\ LET v == resolve_voyage(Database, LoadFailure(fail))
               r == IF v.ok THEN cmd_erase(Database, v.value, target, fail)
                    ELSE NotResolved(Database)
           IN  /\ SetDatabase(r.db)
               /\ last' = Answered(r.err, Given(target,
                                   Called("cmd_erase", r.ok, FALSE, target, fail,
                                          [NothingBefore EXCEPT
                                              !.present = Present(target)])))
               /\ taken' = IF r.ok
                           THEN SelectSeq(taken, LAMBDA o : o.target # target)
                           ELSE taken
        /\ UNCHANGED <<workload, others, world>>

CmdClear ==
    \E fail \in ClearFailures \cup {"load"} :
        /\ LET v == resolve_voyage(Database, LoadFailure(fail))
               r == IF v.ok THEN cmd_clear(Database, v.value, fail)
                    ELSE NotResolved(Database)
           IN  /\ SetDatabase(r.db)
               /\ last' = Answered(r.err,
                                   Called("cmd_clear", r.ok, FALSE, <<>>, fail,
                                          [NothingBefore EXCEPT
                                              !.rowids = {x.rowid : x \in slate}]))
               /\ taken' = IF r.ok THEN <<>> ELSE taken
        /\ UNCHANGED <<workload, others, world>>

CmdAction ==
    \E steer \in SteerCommands, now \in workload.nows,
       fail \in ActionFailures(Database) :
        /\ sqlite_sequence < workload.maxEntries
        /\ world < workload.maxPerformed
        /\ LET v == resolve_voyage(Database, LoadFailure(fail.step))
               r == IF v.ok THEN cmd_action(Database, world, v.value, steer, now, fail)
                    ELSE [world |-> world] @@ NotResolved(Database)
           IN  /\ SetDatabase(r.db)
               /\ world' = r.world
               /\ last' = Answered(r.err,
                                   Called("cmd_action", r.ok, FALSE,
                                          [steer |-> steer, now |-> now],
                                          fail, BeforeSeal))
               /\ taken' = IF r.ok THEN <<>> ELSE taken
        /\ UNCHANGED <<workload, others>>

CmdLog ==
    \E status \in Statuses, now \in workload.nows,
       fail \in SealFailures(Database) \cup {[step |-> "load", k |-> 0]} :
        /\ sqlite_sequence < workload.maxEntries
        /\ LET v == resolve_voyage(Database, LoadFailure(fail.step))
               r == IF v.ok THEN cmd_log(Database, v.value, status, now, fail)
                    ELSE NotResolved(Database)
           IN  /\ SetDatabase(r.db)
               /\ last' = Answered(r.err,
                                   Called("cmd_log", r.ok, FALSE,
                                          [status |-> status, now |-> now],
                                          fail, BeforeSeal))
               /\ taken' = IF r.ok THEN <<>> ELSE taken
        /\ UNCHANGED <<workload, others, world>>

\* command-centred runs: the commands on a voyage
NextCli ==
    \/ CmdEnd
    \/ CmdObserve
    \/ CmdErase
    \/ CmdClear
    \/ CmdAction
    \/ CmdLog

SpecCli == InitCli /\ [][NextCli]_vars

(***************************************************************************)
(* Properties                                                              *)
(***************************************************************************)
\* the step is a seal that succeeded
Sealed == last'.op \in Seals /\ last'.ok

\* the bearing-observations attached to a logbook id, in rowid order, as
\* (target, artifact_hash, observed_at)
Attached(rows, logbook_id) ==
    LET ordered == OrderByRowid({r \in rows : r.logbook_id = logbook_id})
    IN  [i \in 1..Len(ordered) |->
            <<ordered[i].target, ordered[i].artifact_hash, ordered[i].observed_at>>]

\* C1: a successful record_steer or record_log leaves the slate with 0 rows,
\* appends exactly one logbook entry and attaches to it exactly the N pre-seal
\* slate rows (target, artifact_hash, observed_at) in slate order, N >= 0.
C1_SealCopiesSlateAndClears ==
    [][Sealed =>
        /\ slate' = {}
        /\ logbook \subseteq logbook'
        /\ Cardinality(logbook' \ logbook) = 1
        /\ bearing_observations \subseteq bearing_observations'
        /\ LET entry == CHOOSE e \in logbook' \ logbook : TRUE
               before == OrderByRowid(slate)
           IN  /\ \A r \in bearing_observations' \ bearing_observations :
                     r.logbook_id = entry.id
               /\ Attached(bearing_observations', entry.id) =
                     [i \in 1..Cardinality(slate) |->
                        <<before[i].target, before[i].artifact_hash, before[i].observed_at>>]
      ]_vars

\* a seal of two slate rows has succeeded
C1_Witness ==
    /\ last.op \in Seals /\ last.ok
    /\ slate = {}
    /\ \E e \in logbook : Len(Attached(bearing_observations, e.id)) = 2

\* C2: a seal that fails at any step returns an error and leaves the logbook,
\* the bearing_observations and the slate exactly as they were.
C2_FailedSealChangesNothing ==
    [][(last'.op \in Seals /\ last'.seal_step # "none") =>
        /\ ~last'.ok
        /\ UNCHANGED <<logbook, bearing_observations, slate>>
      ]_vars

\* a seal has failed at the delete, after the logbook row and two
\* bearing-observations were written inside the transaction
C2_Witness ==
    /\ last.op \in Seals /\ ~last.ok
    /\ last.seal_step = "delete"
    /\ Cardinality(slate) = 2

\* what an observation is stored as on the slate and in a bearing
Stored(o) ==
    <<TargetJson(o.target), Sha256Hex(PayloadJson(o.payload)),
      TimestampToString(o.observed_at)>>

\* the step is an observe that succeeded
Observed == last'.op = "append_slate" /\ last'.ok

\* the slate holds one row per target, and the rows are the latest
\* observation of each target that was observed and not erased since
SlateIsSetOfLatest ==
    /\ \A r1, r2 \in slate : r1.target = r2.target => r1 = r2
    /\ \A i, j \in 1..Len(taken) : taken[i].target = taken[j].target => i = j
    /\ Cardinality(slate) = Len(taken)
    /\ {<<r.target, r.artifact_hash, r.observed_at>> : r \in slate} =
          {Stored(taken[i]) : i \in 1..Len(taken)}

\* C3: the slate holds at most one row per target; observing a target already
\* on the slate keeps the slate size and replaces that row's artifact hash and
\* observed_at by the new observation's, observing any other target adds a row.
C3_SlateOneRowPerTarget ==
    /\ []SlateIsSetOfLatest
    /\ [][Observed =>
            LET o == last'.input
                row == {r \in slate' : r.target = TargetJson(o.target)}
            IN  /\ Cardinality(slate') =
                      Cardinality(slate) + (IF last'.before.present THEN 0 ELSE 1)
                /\ Cardinality(row) = 1
                /\ \A r \in row : <<r.target, r.artifact_hash, r.observed_at>> = Stored(o)
                /\ {r \in slate : r.target # TargetJson(o.target)} = slate' \ row
         ]_vars

\* a target on the slate was observed again, with another payload and time,
\* next to a row of the issue that differs from it in its focus only
C3_Witness ==
    /\ last.op = "append_slate" /\ last.ok /\ last.before.present
    /\ last.input.target.kind = "GitHubIssue"
    /\ last.input.payload.kind = "Hold"
    /\ Cardinality(artifacts) = 2
    /\ \E r1, r2 \in slate :
          /\ r1.target = TargetJson(last.input.target)
          /\ r2.target = TargetJson([last.input.target EXCEPT !.focus = <<"comments">>])
          /\ r1 # r2

\* C4: the bearing-observations of a sealed entry are the observations on the
\* slate at seal time in the order they were taken: erased targets are absent
\* and a re-observed target stands at the position of its latest observation.
C4_BearingInObservingOrder ==
    [][Sealed =>
        LET entry == CHOOSE e \in logbook' \ logbook : TRUE
        IN  Attached(bearing_observations', entry.id) =
                [i \in 1..Len(taken) |-> Stored(taken[i])]
      ]_vars

\* a slate that had lost its first row, to an erase or to a later observation
\* of its target, was sealed with the two observations taken after it
C4_Witness ==
    /\ last.op \in Seals /\ last.ok
    /\ last.before.rowids = {2, 3}
    /\ \E e \in logbook : Len(Attached(bearing_observations, e.id)) = 2

\* C5: the logbook is append-only: no call changes or removes a logbook row or
\* a bearing-observation of a sealed entry, load_logbook before a call is a
\* prefix of load_logbook after it, and only a successful seal adds an entry.
C5_LogbookAppendOnly ==
    [][/\ logbook \subseteq logbook'
       /\ \A e \in logbook :
             {r \in bearing_observations : r.logbook_id = e.id} =
                {r \in bearing_observations' : r.logbook_id = e.id}
       /\ LET old == load_logbook(Database).value
              new == load_logbook(Database').value
          IN  /\ Len(old) <= Len(new)
              /\ \A i \in 1..Len(old) : old[i] = new[i]
       /\ (logbook' # logbook => Sealed)
      ]_vars

\* the voyage was ended after two seals, the first with an observation
C5_Witness ==
    /\ last.op = "update_voyage" /\ last.ok
    /\ Cardinality(logbook) = 2
    /\ \E r \in bearing_observations : r.logbook_id = 1

\* C6: the logbook identifiers are exactly 1..n in insertion order, also after
\* rolled-back seals, and load_logbook reads the rows in ascending identifier.
C6_LogbookIdsDense ==
    /\ [](LET rows == SelectLogbookRows(Database)
          IN  /\ {r.id : r \in logbook} = 1..Cardinality(logbook)
              /\ Len(rows) = Cardinality(logbook)
              /\ \A i \in 1..Len(rows) : rows[i].id = i)
    /\ [][Sealed =>
            \A e \in logbook' \ logbook :
                /\ e.id = Cardinality(logbook) + 1
                /\ \A x \in logbook : x.id < e.id
         ]_vars

\* the second entry was sealed right after a seal that was rolled back
C6_Witness ==
    /\ last.op \in Seals /\ last.ok /\ last.before.failed_seal
    /\ Cardinality(logbook) = 2

\* C7: no call deletes or rewrites an artifact row; after observe(t, A) and
\* observe(t, B) both artifacts are in the store.
C7_ArtifactsOnlyGrow ==
    [][/\ artifacts \subseteq artifacts'
       /\ (Observed =>
              \E a \in artifacts' :
                 /\ a.hash = Sha256Hex(PayloadJson(last'.input.payload))
                 /\ ZstdDecode(a.data) = PayloadJson(last'.input.payload))
      ]_vars

\* the one target was observed with the other payload: one slate row, both
\* artifacts stored
C7_Witness ==
    /\ last.op = "append_slate" /\ last.ok /\ last.before.present
    /\ Cardinality(slate) = 1
    /\ {ZstdDecode(a.data) : a \in artifacts} = {PayloadJson(p) : p \in Payload}

\* C8: every artifact hash referenced by a slate row or a bearing-observation
\* is in the artifact store, so load_logbook can load every bearing.
C8_ReferencedArtifactsStored ==
    /\ \A r \in slate \cup bearing_observations :
          \E a \in artifacts : a.hash = r.artifact_hash
    /\ load_logbook(Database).ok

\* after a clear, a bearing references an artifact no slate row references
C8_Witness ==
    /\ last.op = "clear_slate" /\ last.ok
    /\ \E r \in bearing_observations :
          /\ \E a \in artifacts : a.hash = r.artifact_hash
          /\ Cardinality(artifacts) = 2

\* C9: the artifact store holds one row per payload: equal payloads, under the
\* same or different targets, have one hash and one artifact row, and the
\* slate rows made from them reference it.
C9_OneArtifactPerPayload ==
    /\ \A a1, a2 \in artifacts : ZstdDecode(a1.data) = ZstdDecode(a2.data) => a1 = a2
    /\ \A i \in 1..Len(taken) :
          \E r \in slate, a \in artifacts :
             /\ r.target = TargetJson(taken[i].target)
             /\ ZstdDecode(a.data) = PayloadJson(taken[i].payload)
             /\ r.artifact_hash = a.hash

\* two targets with equal payloads are on the slate: one artifact row
C9_Witness ==
    /\ Cardinality(slate) = 2
    /\ Cardinality({o.payload : o \in {taken[i] : i \in 1..Len(taken)}}) = 1
    /\ Cardinality(artifacts) = 1

\* the step is an erase that succeeded
Erased == last'.op = "erase_slate" /\ last'.ok

\* C10: erase(target) returns true exactly when the target was on the slate,
\* removes that row and no other, and a second erase of the target returns
\* false without error and leaves the slate unchanged.
C10_EraseReportsAndIsIdempotent ==
    [][Erased =>
        LET target_json == TargetJson(last'.input)
            again == erase_slate(Database', last'.input, "none")
        IN  /\ last'.ret = last'.before.present
            /\ last'.ret = (\E r \in slate : r.target = target_json)
            /\ slate' = {r \in slate : r.target # target_json}
            /\ again.ok /\ ~again.ret /\ again.db = Database'
      ]_vars

\* one of three slate rows was erased
C10_Witness ==
    /\ last.op = "erase_slate" /\ last.ok /\ last.ret
    /\ Cardinality(slate) = 2

\* the step is a clear that succeeded
Cleared == last'.op = "clear_slate" /\ last'.ok

\* C11: clear_slate removes every slate row and nothing else, on an empty
\* slate as well, and clearing again succeeds and leaves the slate empty.
C11_ClearRemovesAllAndIsIdempotent ==
    [][Cleared =>
        LET again == clear_slate(Database', "none")
        IN  /\ slate' = {}
            /\ Database' = [Database EXCEPT !.slate = {}]
            /\ again.ok /\ again.db.slate = {} /\ again.db = Database'
      ]_vars

\* a slate of two rows was cleared
C11_Witness ==
    /\ last.op = "clear_slate" /\ last.ok
    /\ Cardinality(last.before.rowids) = 2
    /\ slate = {}

\* the stored status of the voyage
StoredEnded == \E r \in voyage : r.status = "ended"
StoredActive == \E r \in voyage : r.status = "active"

C13_EndIsTerminal ==
    [][last'.op = "cmd_end" =>
        IF StoredEnded
        THEN /\ ~last'.ok
             /\ last'.err \in {"is already ended", "voyage not found"}
             /\ Database' = Database
        ELSE IF last'.ok
        THEN voyage' = {[r EXCEPT !.status = "ended",
                                  !.ended_at = Some(TimestampToString(last'.input.now)),
                                  !.ended_status = last'.input.status] : r \in voyage}
        ELSE /\ last'.err \in {"failed to update voyage", "voyage not found"}
             /\ Database' = Database
      ]_vars

C13_Witness ==
    /\ last.op = "cmd_end" /\ last.ok
    /\ last.input.status = Some("Done.")
    /\ \E r \in voyage : r.status = "ended" /\ r.ended_status = Some("Done.")

\* C14: every voyage stored as ended has ended_at >= created_at.
C14_EndedAtNotBeforeCreatedAt ==
    \A r \in voyage :
        LET v == decode_voyage(r)
        IN  v.ok /\ v.value.status.kind = "Ended"
                => v.value.status.ended_at >= v.value.created_at

\* the commands that write the slate or the logbook
MutatingCommands == {"cmd_observe", "cmd_erase", "cmd_clear", "cmd_action", "cmd_log"}

\* C15: once the voyage is stored as ended, observe, slate erase, slate
\* clear, steer and log fail and leave the slate and the logbook unchanged.
C15_EndedVoyageRefusesCommands ==
    [][StoredEnded /\ last'.op \in MutatingCommands =>
        /\ ~last'.ok
        /\ slate' = slate
        /\ logbook' = logbook
        /\ bearing_observations' = bearing_observations
      ]_vars

\* what perform answers when it fails
PerformErrors == {"this steer action is not yet implemented", "gh command failed"}

\* the rows of the logbook of the next state that this step wrote
NewEntries == logbook' \ logbook

StorageCalls == {"append_slate", "erase_slate", "clear_slate", "record_steer",
                 "record_log", "update_voyage"}

\* what a storage call that succeeded makes of a database, by its inputs
Applied(call, db) ==
    CASE call.op = "append_slate" -> append_slate(db, call.input, "none").db
      [] call.op = "erase_slate" -> erase_slate(db, call.input, "none").db
      [] call.op = "clear_slate" -> clear_slate(db, "none").db
      [] call.op = "record_steer" ->
            record_steer(db, call.input.steer, SteerArgs.summary, SteerArgs.identity,
                         SteerArgs.role, SteerArgs.method, call.input.now,
                         [step |-> "none", k |-> 0]).db
      [] call.op = "record_log" ->
            record_log(db, call.input.status, LogArgs.summary, LogArgs.identity,
                       LogArgs.role, LogArgs.method, call.input.now,
                       [step |-> "none", k |-> 0]).db
      [] call.op = "update_voyage" -> update_voyage(db, call.input, "none").db

\* C18: voyages are isolated: a storage call on one voyage (observe, erase,
\* clear, seal, update), in any interleaving with calls on the other, leaves
\* the database of the other voyage (voyage row, slate, artifacts, logbook,
\* bearing observations) unchanged, and what it makes of its own database
\* is what it makes of that database alone.
C18_VoyagesIsolated ==
    [][last'.op \in StorageCalls =>
        /\ \A id \in Uuids \ {last'.voyage} : Files'[voyage_path(id)] = FileOf(id)
        /\ last'.ok =>
              Files'[voyage_path(last'.voyage)] = Applied(last', FileOf(last'.voyage))
      ]_vars

C18_Witness ==
    /\ last.op = "clear_slate" /\ last.ok
    /\ last.voyage = Uuid(OtherVoyageId)
    /\ last.before.rowids # {}
    /\ slate # {}
    /\ logbook # {}
    /\ FileOf(Uuid(OtherVoyageId)).slate = {}
    /\ FileOf(Uuid(OtherVoyageId)).artifacts # {}

\* C19: load_voyage(v.id) after create_voyage(v) answers a voyage equal to v
\* in id, intent, created_at and status, with ended_at and the optional
\* outcome, for v active and for v ended with and without an outcome.
C19_CreateThenLoadRoundTrip ==
    [][last'.op = "create_voyage" /\ last'.ok =>
        LET v == last'.input
            loaded == LoadVoyage(Files', v.id)
        IN  /\ loaded.ok
            /\ loaded.value.id = v.id
            /\ loaded.value.intent = v.intent
            /\ loaded.value.created_at = v.created_at
            /\ loaded.value.status = v.status
      ]_vars

C19_Witness ==
    /\ last.op = "create_voyage" /\ last.ok
    /\ last.input.status = Ended(MaxTime, Some("Done."))
    /\ LoadVoyage(Files, last.input.id).ok

\* C20: create_voyage for an identifier whose database file exists fails
\* with VoyageAlreadyExists and leaves the voyage row, the slate, the
\* logbook and the artifacts of that file, and every other file, unchanged.
C20_DuplicateCreateFails ==
    [][last'.op = "create_voyage" /\ FileOf(last'.voyage) # NoFile =>
        /\ ~last'.ok
        /\ last'.err = "VoyageAlreadyExists"
        /\ Files' = Files
      ]_vars

C20_Witness ==
    /\ last.op = "create_voyage" /\ ~last.ok
    /\ last.err = "VoyageAlreadyExists"
    /\ last.voyage = Uuid(VoyageId)
    /\ slate # {}
    /\ logbook # {}
    /\ artifacts # {}

\* the voyage rows of a file with the identifier id
RowsOf(file, id) ==
    IF file = NoFile THEN {} ELSE {r \in file.voyage : r.id = UuidToString(id)}

\* C30: update_voyage changes only the status, ended_at and ended_status of
\* the row whose id is the argument's: id, intent and created_at are never
\* changed, nor any other table or file; an Active status is stored with
\* ended_at and ended_status both null; when no row has the identifier it
\* fails, with VoyageNotFound unless the database itself failed, and changes
\* nothing.
C30_UpdateVoyageFrame ==
    [][last'.op = "update_voyage" =>
        LET old == FileOf(last'.voyage)
            new == Files'[voyage_path(last'.voyage)]
            rows == RowsOf(old, last'.voyage)
        IN  /\ \A id \in Uuids \ {last'.voyage} : Files'[voyage_path(id)] = FileOf(id)
            /\ rows = {} => ~last'.ok /\ last'.err \in {"VoyageNotFound", "Db"}
            /\ rows = {} /\ (old = NoFile \/ last'.err # "Db") =>
                  last'.err = "VoyageNotFound"
            /\ ~last'.ok => new = old
            /\ last'.ok =>
                  LET status == last'.input.status
                  IN  /\ rows # {}
                      /\ new = [old EXCEPT !.voyage = new.voyage]
                      /\ new.voyage =
                            (old.voyage \ rows) \cup
                            {[id |-> r.id, intent |-> r.intent, created_at |-> r.created_at,
                              status |-> IF status = Active THEN "active" ELSE "ended",
                              ended_at |-> IF status = Active THEN None
                                           ELSE Some(TimestampToString(status.ended_at)),
                              ended_status |-> IF status = Active THEN None
                                               ELSE status.status] : r \in rows}
      ]_vars

\* an ended voyage with an outcome was written active, by a value of another
\* intent and creation time, over a slate and a logbook; and a voyage without
\* a file was written
C30_Witness ==
    /\ last.op = "update_voyage" /\ last.ok
    /\ last.input.status = Active
    /\ last.input.intent = "Renamed"
    /\ voyage = {[VoyageRow(NewVoyage(Uuid(VoyageId), "Fix crash", 1)) EXCEPT
                    !.status = "active"]}
    /\ slate # {}
    /\ logbook # {}

\* update_voyage did not find the row of a voyage whose file is there
C30_NoRowWitness ==
    /\ last.op = "update_voyage" /\ ~last.ok
    /\ last.err = "VoyageNotFound"
    /\ FileOf(last.voyage) = EmptyDatabase

\* the calls of the store on the database of a voyage
StoreCalls == StorageCalls \cup {"load_voyage", "load_slate", "load_logbook"}

\* C21: every call of the store addressed to an identifier that has no
\* database file (load_voyage, update_voyage, observe, load_slate,
\* clear_slate, erase, record_steer, record_log, load_logbook) fails with
\* VoyageNotFound and leaves the storage root unchanged: no file is created.
C21_MissingVoyageNotFound ==
    [][last'.op \in StoreCalls /\ FileOf(last'.voyage) = NoFile =>
        /\ ~last'.ok
        /\ last'.err = "VoyageNotFound"
        /\ Files' = Files
        /\ read_dir(Files') = read_dir(Files)
        /\ \A entries \in read_dir(Files) :
              list_voyages(Files', entries, "none") = list_voyages(Files, entries, "none")
      ]_vars

\* an observation was refused on the voyage without a file, while this
\* voyage has a slate and a logbook entry
C21_Witness ==
    /\ last.op = "append_slate" /\ ~last.ok
    /\ last.err = "VoyageNotFound"
    /\ last.voyage = Uuid(OtherVoyageId)
    /\ FileOf(Uuid(OtherVoyageId)) = NoFile
    /\ slate # {}
    /\ logbook # {}

\* the identifiers whose <id>.sqlite file is there with a voyage row that
\* decodes
StoredIds(files) ==
    {id \in Uuids : /\ files[voyage_path(id)] # NoFile
                    /\ \E r \in files[voyage_path(id)].voyage : decode_voyage(r).ok}

\* C22: list_voyages returns exactly the voyages whose <id>.sqlite file has
\* an identifier stem and a readable voyage row, each once, sorted ascending
\* by created_at; files of another extension, files whose stem is no
\* identifier and files without a readable voyage row are skipped.
C22_ListVoyagesSorted ==
    [][last'.op = "list_voyages" /\ last'.ok =>
        LET listed == last'.loaded
        IN  /\ Len(listed) = Cardinality(StoredIds(Files))
            /\ {listed[i].id : i \in 1..Len(listed)} = StoredIds(Files)
            /\ \A i \in 1..Len(listed) :
                  listed[i] = LoadVoyage(Files, listed[i].id).value
            /\ \A i, j \in 1..Len(listed) :
                  i < j => listed[i].created_at <= listed[j].created_at
      ]_vars

\* the other voyage, created before this one, was listed first from a
\* directory that names this one first, next to a database under a name
\* that is no identifier and a leftover of the JSONL store
C22_Witness ==
    /\ last.op = "list_voyages" /\ last.ok
    /\ Len(last.loaded) = 2
    /\ last.loaded[1].id = Uuid(OtherVoyageId)
    /\ last.loaded[1].created_at < last.loaded[2].created_at
    /\ last.input[1] = VoyageId
    /\ Files[NotesPath] # NoFile
    /\ Files[LegacyPath] # NoFile

WithoutAction(db) ==
    [db EXCEPT !.logbook = {[r EXCEPT !.action = <<>>] : r \in @}]

\* C24: record_steer and record_log differ only in the stored action: from
\* the same voyage state, with the same summary, identity, role and method,
\* at the same time and failing at the same step if at all, both succeed or
\* both fail and leave the same slate (empty after a success), the same
\* bearing-observations, and the same logbook rows but for the action of
\* the new row, Steer(steer) in one and Log(status) in the other.
C24_SteerAndLogDifferInAction ==
    \A steer \in Steer, status \in Statuses, args \in {SteerArgs, LogArgs},
       now \in Times, fail \in SealFailures(Database) :
        LET steered == record_steer(Database, steer, args.summary, args.identity,
                                    args.role, args.method, now, fail)
            logged == record_log(Database, status, args.summary, args.identity,
                                 args.role, args.method, now, fail)
        IN  /\ steered.ok = logged.ok
            /\ WithoutAction(steered.db) = WithoutAction(logged.db)
            /\ steered.ok =>
                  /\ steered.db.slate = {}
                  /\ logged.db.slate = {}
                  /\ \E id \in 1..(Cardinality(logbook) + 1) :
                        /\ {r.action : r \in {x \in steered.db.logbook : x.id = id}} =
                              {EntryKindJson([kind |-> "Steer", steer |-> steer])}
                        /\ {r.action : r \in {x \in logged.db.logbook : x.id = id}} =
                              {EntryKindJson([kind |-> "Log", status |-> status])}
                        /\ {x \in steered.db.logbook : x.id # id} = logbook
                        /\ {x \in logged.db.logbook : x.id # id} = logbook
                  /\ steered.db # logged.db

\* a steer was recorded with an observation on the slate, after a log that
\* was recorded with one
C24_Witness ==
    /\ last.op = "record_steer" /\ last.ok
    /\ last.before.rowids # {}
    /\ \E x, y \in logbook :
          /\ x.id < y.id
          /\ x.action = LogActionJson("halfway")
          /\ y.action # x.action
          /\ \E r \in bearing_observations : r.logbook_id = x.id
          /\ \E r \in bearing_observations : r.logbook_id = y.id

\* what a seal taken now would attach to its entry, in order
SealedNow ==
    LET sealed == record_log(Database, "halfway", LogArgs.summary, LogArgs.identity,
                             LogArgs.role, LogArgs.method, MaxTime,
                             [step |-> "none", k |-> 0]).db
    IN  Attached(sealed.bearing_observations, NextLogbookId(Database))

C28_EraseOfAbsentTargetFails ==
    [][last'.op = "cmd_erase" =>
        LET row == {r \in slate : r.target = TargetJson(last'.input)}
        IN  /\ UNCHANGED <<logbook, artifacts, bearing_observations, voyage>>
            /\ row = {} => ~last'.ok /\ slate' = slate
            /\ last'.ok => row # {} /\ slate' = slate \ row
            /\ last'.err = "is not on the slate" <=>
                  (row = {} /\ last'.err \in {"none", "is not on the slate"})
            /\ last'.err = "none" <=> last'.ok
            /\ ~last'.ok => slate' = slate
      ]_vars

\* the erase of a target that is not on the slate was refused on a voyage
\* with a logbook entry and an artifact
C28_Witness ==
    /\ last.op = "cmd_erase" /\ ~last.ok
    /\ last.err = "is not on the slate"
    /\ slate = {}
    /\ logbook # {}
    /\ artifacts # {}

\* the stored voyages a reference names: the one it is the full identifier
\* of, and the one whose rendered identifier it is a prefix of when there is
\* exactly one such
Named(reference) ==
    LET full == {id \in StoredIds(Files) : Chars(UuidToString(id)) = reference}
        prefixed == {id \in StoredIds(Files) :
                        \E n \in 0..4 :
                            SubSeq(Chars(UuidToString(id)), 1, n) = reference}
    IN  full \cup (IF Cardinality(prefixed) = 1 THEN prefixed ELSE {})

\* C27: a --voyage reference resolves to the voyage v exactly when it is the
\* full identifier of the stored voyage v or a prefix of the rendered
\* identifier of exactly one listed voyage, v; a prefix of none and a prefix
\* of two or more are errors, never a pick; nothing is written.
C27_ReferenceResolvesUniquely ==
    [][last'.op = "resolve_voyage" =>
        LET named == Named(last'.input)
            engine == {"voyage not found: Db", "failed to list voyages"}
        IN  /\ Files' = Files
            /\ last'.ok =>
                  \E id \in named : last'.loaded = <<LoadVoyage(Files, id).value>>
            /\ named # {} => last'.ok \/ last'.err \in engine
            /\ named = {} =>
                  /\ ~last'.ok
                  /\ last'.err \in engine \cup
                        {"voyage not found: VoyageNotFound", "no voyage matching",
                         "is ambiguous"}
            /\ last'.err = "is ambiguous" =>
                  Cardinality({id \in StoredIds(Files) :
                                 starts_with(Chars(UuidToString(id)), last'.input)}) >= 2
            /\ last'.err = "no voyage matching" =>
                  \A id \in StoredIds(Files) :
                      ~starts_with(Chars(UuidToString(id)), last'.input)
      ]_vars

\* a prefix of both stored voyages was refused as ambiguous
C27_Witness ==
    /\ last.op = "resolve_voyage" /\ ~last.ok
    /\ last.err = "is ambiguous"
    /\ last.input = <<"0", "a">>
    /\ StoredIds(Files) = Uuids

\* a prefix of one stored voyage resolved to it, next to the other
C27_UniqueWitness ==
    /\ last.op = "resolve_voyage" /\ last.ok
    /\ last.input = <<"0", "a", "9">>
    /\ last.loaded[1].id = Uuid(OtherVoyageId)
    /\ StoredIds(Files) = Uuids

\* the config file resolve_identity reads, NoFile without a home directory
ConfigFile == IF workload.config_path = None THEN NoFile ELSE others[ConfigPath]

\* the config file holds the contents
ConfigHolds(contents) == ConfigFile = FileOfContents(contents)

\* C26: identity resolution returns the explicit --as value when one is
\* given; otherwise the HELM_IDENTITY value when set and non-empty;
\* otherwise the non-empty identity key of the config file; and fails with
\* the identity-required error when none yields a value. A missing config
\* file or a config without the key is no error in itself, a malformed (or
\* unreadable) config file is one.
C26_IdentityResolution ==
    last.op = "resolve_identity" =>
        LET explicit == workload.explicit
            env_val == workload.env_val
        IN  IF explicit # None
            THEN last.ok /\ last.loaded = explicit
            ELSE IF env_val \notin {None, Some("")}
            THEN last.ok /\ last.loaded = env_val
            ELSE IF ConfigHolds("identity = \"carol\"")
            THEN last.ok /\ last.loaded = Some("carol")
            ELSE IF \/ ConfigFile = NoFile
                    \/ ConfigHolds("identity = \"\"")
                    \/ ConfigHolds("some_other_field = \"value\"")
                    \/ ConfigHolds("")
            THEN ~last.ok /\ last.err = IDENTITY_REQUIRED
            ELSE IF ConfigFile = Unreadable
            THEN ~last.ok /\ last.err = "failed to read"
            ELSE ~last.ok /\ last.err = "failed to parse"

\* an empty HELM_IDENTITY fell through to the identity of the config file
C26_Witness ==
    /\ last.op = "resolve_identity" /\ last.ok
    /\ workload.explicit = None
    /\ workload.env_val = Some("")
    /\ last.loaded = Some("carol")

\* a malformed config file was an error
C26_MalformedWitness ==
    /\ last.op = "resolve_identity" /\ ~last.ok
    /\ last.err = "failed to parse"
    /\ ConfigHolds("not valid toml ][[")

\* a FileContents payload reports every requested path, in request order:
\* a missing or unreadable file as an Error, bytes that are no UTF-8 as
\* Binary with their size, text as Text
FileEntriesInRequestOrder ==
    last.op = "observe" /\ last.ok /\ workload.target.kind = "FileContents" =>
        LET paths == workload.target.paths
            contents == last.loaded[1].contents
        IN  /\ last.loaded[1].kind = "FileContents"
            /\ Len(contents) = Len(paths)
            /\ \A i \in 1..Len(paths) :
                  LET file == others[paths[i]]
                      entry == contents[i].content
                  IN  /\ contents[i].path = paths[i]
                      /\ file \in {NoFile, Unreadable} <=> entry.kind = "Error"
                      /\ file = FileOfContents(<<255, 254, 0>>) <=>
                            entry = [kind |-> "Binary", size_bytes |-> 3]
                      /\ file = FileOfContents(<<104, 105>>) <=>
                            entry = [kind |-> "Text", content |-> <<104, 105>>]
                      /\ file = FileOfContents(<<>>) <=>
                            entry = [kind |-> "Text", content |-> <<>>]

\* C29: observe(target, gh_credentials?) is total: for every target and
\* every credentials argument, absent credentials included, it returns a
\* payload and never panics; unreadable, missing and non-UTF-8 files are
\* reported inside the payload as Error or Binary entries, one entry per
\* requested path in request order.
C29_ObserveIsTotal ==
    /\ last.op = "observe" => last.ok /\ Len(last.loaded) = 1
    /\ FileEntriesInRequestOrder

\* observe panics exactly for a GitHub target without a config directory
ObservePanicsWithoutCredentials ==
    last.op = "observe" =>
        (~last.ok <=>
            /\ workload.target.kind \in
                  {"GitHubPullRequest", "GitHubIssue", "GitHubRepository"}
            /\ workload.gh_config_dir = None)

C31_AppendFailedWitness ==
    /\ last.op = "cmd_observe" /\ ~last.ok
    /\ last.err = "failed to append to slate"
    /\ last.loaded = <<>>
    /\ slate # {}

\* the place of a phase in Scope, Focus, Observed, Position
PhaseRank(phase) == CHOOSE i \in 1..Len(Phases) : Phases[i] = phase

\* the step is a call on the builder that is there
OnBuilder == last'.op # "new"

\* what each step does when called in its phase: finish_scope moves to Focus
\* only with a scope path and else answers an error in Scope, finish_focus
\* observes and moves to Observed with or without focus paths,
\* acknowledge_moment moves to Position, set_position yields a bearing
\* exactly for text that is not blank
StepsInPhase ==
    /\ last'.op = "finish_scope" /\ others.scope = <<>> =>
          /\ ~last'.ok /\ last'.err = "at least one scope path is required"
          /\ others.phase = "Scope" /\ others'.phase = "Scope"
    /\ last'.op = "finish_scope" /\ others.phase = "Scope" /\ others.scope # <<>> =>
          last'.ok /\ others'.phase = "Focus"
    /\ others'.phase = "Focus" /\ others.phase # "Focus" =>
          last'.op = "finish_scope" /\ others.scope # <<>>
    /\ last'.op = "finish_focus" /\ others.phase = "Focus" =>
          /\ last'.ok /\ others'.phase = "Observed"
          /\ others'.moment = Some([observations |->
                                      <<observe_files(others.scope, others.focus)>>])
          /\ others'.plan # None
    /\ others'.phase = "Observed" /\ others.phase # "Observed" =>
          last'.op = "finish_focus"
    /\ last'.op = "acknowledge_moment" /\ others.phase = "Observed" =>
          last'.ok /\ others'.phase = "Position"
    /\ others'.phase = "Position" /\ others.phase # "Position" =>
          last'.op = "acknowledge_moment"
    /\ last'.op = "set_position" =>
          /\ last'.ok <=> others.phase = "Position" /\ trim(last'.input) # <<>>
          /\ last'.ok <=> last'.loaded # <<>>
          /\ last'.ok =>
                /\ last'.loaded[1].position.text = last'.input
                /\ last'.loaded[1].plan = others.plan[1]
                /\ last'.loaded[1].moment = others.moment[1]

\* C32: the phase of a BearingBuilder only moves Scope -> Focus -> Observed
\* -> Position, never backwards and never skipping a phase: finish_scope
\* moves to Focus only when a scope path was added (else it answers an
\* error and the phase stays Scope), finish_focus observes and moves to
\* Observed even without a focus path, acknowledge_moment moves to
\* Position, and set_position yields a bearing only for text that is not
\* blank.
C32_PhaseOnlyAdvances ==
    [][OnBuilder =>
        /\ PhaseRank(others'.phase) >= PhaseRank(others.phase)
        /\ PhaseRank(others'.phase) <= PhaseRank(others.phase) + 1
        /\ StepsInPhase
      ]_vars

\* but for finish_scope called after the Scope phase, the phase never moves
\* backwards and never skips, and every step does what C32 says
PhaseAdvancesButForFinishScope ==
    [][OnBuilder /\ ~(last'.op = "finish_scope" /\ others.phase # "Scope") =>
        /\ PhaseRank(others'.phase) >= PhaseRank(others.phase)
        /\ PhaseRank(others'.phase) <= PhaseRank(others.phase) + 1
        /\ StepsInPhase
      ]_vars

\* finish_scope called after the Scope phase answers Ok and moves the phase
\* to Focus, backwards from Observed and from Position
FinishScopeMovesBack ==
    [][last'.op = "finish_scope" /\ others.phase # "Scope" =>
        last'.ok /\ others'.phase = "Focus"
      ]_vars

\* a bearing was built with two scope paths and a focus path
BearingBuilt ==
    /\ last.op = "set_position" /\ last.ok
    /\ Len(last.loaded[1].plan.sources[1].scope) = 2
    /\ Len(last.loaded[1].moment.observations[1].inspections) = 1

\* the slate calls
SlateCalls == {"append_slate", "erase_slate", "clear_slate"}

\* every store call on the voyage succeeds when the engine does not fail
StoreCallsSucceed ==
    /\ \A o \in workload.observations :
          /\ append_slate(Database, o, "none").ok
          /\ erase_slate(Database, o.target, "none").ok
    /\ clear_slate(Database, "none").ok
    /\ \A steer \in Steer, now \in workload.nows :
          record_steer(Database, steer, SteerArgs.summary, SteerArgs.identity,
                       SteerArgs.role, SteerArgs.method, now,
                       [step |-> "none", k |-> 0]).ok
    /\ \A status \in Statuses, now \in workload.nows :
          record_log(Database, status, LogArgs.summary, LogArgs.identity,
                     LogArgs.role, LogArgs.method, now,
                     [step |-> "none", k |-> 0]).ok

\* C33: at the store level observe, erase and clear succeed whatever the
\* status of the voyage, Active or Ended, and change only the slate and the
\* artifacts, never the logbook, the bearing observations or the voyage
\* row; a seal succeeds on an ended voyage as well, adds its entry, and
\* never changes the voyage row or an artifact.
C33_StoreIgnoresStatus ==
    /\ []StoreCallsSucceed
    /\ [][/\ last'.op \in SlateCalls =>
               UNCHANGED <<logbook, sqlite_sequence, bearing_observations, voyage>>
          /\ last'.op \in Seals =>
               /\ UNCHANGED <<voyage, artifacts>>
               /\ last'.ok => Cardinality(logbook') = Cardinality(logbook) + 1
          /\ last'.op \in SlateCalls \cup Seals /\ ~last'.ok => last'.err = "Db"
         ]_vars

\* an observation was appended to the slate of an ended voyage that has a
\* logbook entry
C33_Witness ==
    /\ last.op = "append_slate" /\ last.ok
    /\ StoredEnded
    /\ logbook # {}
    /\ slate # {}

\* an ended voyage was sealed with an observation on its slate
C33_SealWitness ==
    /\ last.op \in Seals /\ last.ok
    /\ StoredEnded
    /\ bearing_observations # {}

\* the slate of an ended voyage was erased from, and cleared
C33_EraseWitness ==
    /\ last.op \in {"erase_slate", "clear_slate"} /\ last.ok /\ last.ret
    /\ StoredEnded

\* a row as a (target, artifact_hash, observed_at) triple
Triple(r) == <<r.target, r.artifact_hash, r.observed_at>>

\* no observation is attached to two entries or twice to one, and none is
\* both attached to an entry and still on the slate
AttachedOnce ==
    /\ \A x, y \in bearing_observations : Triple(x) = Triple(y) => x = y
    /\ \A r \in slate, x \in bearing_observations : Triple(r) # Triple(x)

\* C34: every observation is sealed at most once. With the clock moving on
\* between observe calls, so that a (target, artifact_hash, observed_at) row
\* names the call that placed it: a row is attached to at most one logbook
\* entry; the rows on the slate at a successful seal, those neither erased,
\* cleared nor replaced since they were placed, are attached to the entry of
\* that seal and leave the slate; no other step attaches a row, and only an
\* observe places one on the slate.
C34_SealedAtMostOnce ==
    /\ []AttachedOnce
    /\ [][/\ Sealed =>
               /\ {Triple(r) : r \in bearing_observations' \ bearing_observations} =
                     {Triple(r) : r \in slate}
               /\ Cardinality(bearing_observations' \ bearing_observations) =
                     Cardinality(slate)
               /\ \A r \in bearing_observations' \ bearing_observations :
                     r.logbook_id \notin {e.id : e \in logbook}
               /\ slate' = {}
          /\ ~Sealed => bearing_observations' = bearing_observations
          /\ bearing_observations \subseteq bearing_observations'
          /\ \A r \in slate' :
               Triple(r) \notin {Triple(x) : x \in slate} =>
                  /\ last'.op = "append_slate" /\ last'.ok
                  /\ Triple(r) = Stored(last'.input)
         ]_vars

\* two entries were sealed, each with an observation of the same target,
\* the second observed after the first seal
C34_Witness ==
    /\ last.op \in Seals /\ last.ok
    /\ slate = {}
    /\ \E x, y \in bearing_observations :
          /\ x.logbook_id = 1 /\ y.logbook_id = 2
          /\ x.target = y.target
          /\ x.artifact_hash = y.artifact_hash
          /\ x.observed_at # y.observed_at

\* an observation was replaced on the slate before the seal, and only the
\* newer one was sealed
C34_ReplacedWitness ==
    /\ last.op \in Seals /\ last.ok
    /\ last.before.rowids # {} /\ 1 \notin last.before.rowids
    /\ Cardinality(bearing_observations) = 1

\* the database file of the voyage holds exactly one voyage row, its id is
\* the stem of the file, and load_voyage answers a voyage of that id
OwnRow(files, id) ==
    LET file == files[voyage_path(id)]
    IN  /\ file # NoFile
        /\ Cardinality(file.voyage) = 1
        /\ \A r \in file.voyage : r.id = voyage_path(id)
        /\ LoadVoyage(files, id).ok
        /\ LoadVoyage(files, id).value.id = id

\* C35: for every voyage created through create_voyage, and after any
\* sequence of update_voyage calls and of other store calls, the database
\* file of the voyage holds exactly one voyage row and the id of that row is
\* the stem of the file, so that load_voyage(id), which reads the first row
\* whatever its id, answers a voyage whose id is the one asked for.
C35_OneVoyageRowPerFile ==
    /\ [](\A id \in Uuids :
            FileOf(id) # NoFile /\ FileOf(id).voyage # {} => OwnRow(Files, id))
    /\ [][/\ last'.op = "create_voyage" /\ last'.ok =>
               /\ OwnRow(Files', last'.voyage)
               /\ last'.input.id = last'.voyage
               /\ Files'[voyage_path(last'.voyage)].voyage = {VoyageRow(last'.input)}
          /\ \A id \in Uuids : OwnRow(Files, id) => OwnRow(Files', id)
          /\ last'.op = "update_voyage" /\ last'.ok =>
               /\ OwnRow(Files', last'.voyage)
               /\ LoadVoyage(Files', last'.voyage).value.status = last'.input.status
         ]_vars

\* the other voyage was created and then updated, while this voyage is
\* stored as ended
C35_Witness ==
    /\ last.op = "update_voyage" /\ last.ok
    /\ last.voyage = Uuid(OtherVoyageId)
    /\ last.input.status = Active
    /\ OwnRow(Files, Uuid(OtherVoyageId))
    /\ OwnRow(Files, Uuid(VoyageId))
    /\ StoredEnded

\* the step is a create_voyage that failed with another error than
\* VoyageAlreadyExists
CreateFailed ==
    last'.op = "create_voyage" /\ ~last'.ok /\ last'.err # "VoyageAlreadyExists"

\* the storage root holds no file for the voyage: load_voyage answers
\* VoyageNotFound and a create_voyage of that id can succeed
NothingLeft(files, id) ==
    /\ files[voyage_path(id)] = NoFile
    /\ LoadVoyage(files, id) = [ok |-> FALSE, value |-> "VoyageNotFound"]
    /\ \A v \in NewVoyages : v.id = id => create_voyage(files, v, "none").ok

\* the storage root holds a file for the voyage without a voyage row:
\* load_voyage answers an error of the engine, list_voyages skips the file,
\* and a create_voyage of that id answers VoyageAlreadyExists
FileLeft(files, id) ==
    /\ files[voyage_path(id)] # NoFile
    /\ files[voyage_path(id)].voyage = {}
    /\ LoadVoyage(files, id) = [ok |-> FALSE, value |-> "Db"]
    /\ \A entries \in read_dir(files) :
          LET r == list_voyages(files, entries, "none")
          IN  r.ok /\ \A i \in 1..Len(r.value) : r.value[i].id # id
    /\ \A v \in NewVoyages, fail \in CreateFailures :
          v.id = id => create_voyage(files, v, fail).err = "VoyageAlreadyExists"

\* C36, as claimed: create_voyage is all-or-nothing: when it answers an
\* error other than VoyageAlreadyExists, no database file of that id is left
\* behind, so load_voyage answers VoyageNotFound and a later create_voyage
\* of the same id can succeed.
C36_CreateAllOrNothing ==
    [][CreateFailed => NothingLeft(Files', last'.voyage)]_vars

\* C36, amended: create_voyage is not all-or-nothing. When it fails after
\* the file was opened (at the insert of the voyage row), the database file
\* of that id is left behind without a voyage row: load_voyage answers an
\* error of the engine and not VoyageNotFound, list_voyages skips the file,
\* and a later create_voyage of the same id answers VoyageAlreadyExists.
\* Only when the open failed is no file left; the other files are as they
\* were in both cases.
C36_FailedCreateLeavesFile ==
    /\ [](\A v \in NewVoyages :
            Files[voyage_path(v.id)] = NoFile =>
               LET inserted == create_voyage(Files, v, "insert")
                   opened == create_voyage(Files, v, "open")
               IN  /\ ~inserted.ok /\ inserted.err = "Db"
                   /\ FileLeft(inserted.files, v.id)
                   /\ ~opened.ok /\ opened.err = "Db"
                   /\ NothingLeft(opened.files, v.id))
    /\ [][CreateFailed =>
            /\ Files[voyage_path(last'.voyage)] = NoFile
            /\ last'.err = "Db"
            /\ \A path \in DOMAIN Files :
                  path # voyage_path(last'.voyage) => Files'[path] = Files[path]
            /\ \/ NothingLeft(Files', last'.voyage)
               \/ FileLeft(Files', last'.voyage)
         ]_vars

\* a create_voyage of the other voyage failed and left its file, beside this
\* voyage and a database that is not named by an identifier
C36_Witness ==
    /\ last.op = "create_voyage" /\ ~last.ok /\ last.err = "Db"
    /\ last.voyage = Uuid(OtherVoyageId)
    /\ FileLeft(Files, Uuid(OtherVoyageId))
    /\ Files[NotesPath] # NoFile

\* C37: whenever resolve_identity succeeds, from any combination of the
\* explicit value, the environment value and the config file, the identity
\* it returns is not the empty string.
C37_IdentityNeverEmpty ==
    (last.op = "resolve_identity" /\ last.ok) =>
        /\ last.loaded # None
        /\ last.loaded # Some("")

\* without an explicit value, an identity that resolve_identity returns is
\* not empty: the empty values of the environment and of the config file
\* fall through
IdentityNotEmptyWithoutExplicit ==
    (last.op = "resolve_identity" /\ last.ok /\ workload.explicit = None) =>
        /\ last.loaded # None
        /\ last.loaded # Some("")

\* an empty explicit value was returned as the identity, over an
\* environment value that is not empty
EmptyExplicitReturned ==
    /\ last.op = "resolve_identity" /\ last.ok
    /\ workload.explicit = Some("")
    /\ workload.env_val = Some("bob")
    /\ last.loaded = Some("")

\* the step called on_enter on the flow of the bearing screen
OnEnterCalled == last'.op = "on_enter"

\* C38: for every sequence of key events the expect calls of on_enter never
\* fail: the flow is in the EnterPosition step only with a plan and a
\* moment, no step unwinds with a failed expect, and the event loop calls
\* on_enter only on the flow of the bearing screen, which has not returned
\* its result.
C38_ExpectsNeverFail ==
    /\ [](/\ others.screen # "Panicked"
          /\ last.op = "on_enter" => last.ok /\ last.err = "none"
          /\ (others.screen = "Bearing" /\ others.flow.step = "EnterPosition") =>
                others.flow.plan # None /\ others.flow.moment # None
          /\ others.screen = "Bearing" => ~others.flow.returned)
    /\ [][OnEnterCalled =>
            /\ others.screen = "Bearing"
            /\ ~others.flow.returned
            /\ on_enter(others.flow, MaxTime).panic = "none"
            /\ last'.ret => others'.screen \in {"Voyage", "Exited"}
         ]_vars

\* on_enter returned the bearing of a flow with a scope path and a focus
\* path, the entry was appended and the voyage screen came back
C38_Witness ==
    /\ last.op = "on_enter" /\ last.ret
    /\ last.loaded # None
    /\ Len(last.loaded[1].plan.scope) = 1 /\ Len(last.loaded[1].plan.focus) = 1
    /\ others.screen = "Voyage" /\ others.entries = 1

\* on_enter returned the bearing and the entry could not be appended: the
\* loop was left
C38_AppendFailedWitness ==
    /\ last.op = "on_enter" /\ last.ret
    /\ others.screen = "Exited" /\ others.err = "Io" /\ others.entries = 0

\* the step is the commit of the sealer's transaction
SealCommitted == others.sealer.pc = "commit" /\ others'.sealer.pc = "idle"

\* the slate row or the bearing-observation row holds the observation
HoldsObservation(r, observation) ==
    Triple(r) = <<TargetJson(observation.target), PayloadHash(observation),
                  TimestampToString(observation.observed_at)>>

\* C39: with an observe and a seal of one voyage running in two processes,
\* the commit of the seal deletes exactly the slate rows it copied: every
\* row on the slate at the commit is in the new bearing, once, and the
\* observation that observe committed last for a target is on the slate or
\* in a bearing.
C39_SealDeletesOnlyCopiedRows ==
    /\ [](\A i \in 1..Len(taken) :
            \E r \in slate \cup bearing_observations : HoldsObservation(r, taken[i]))
    /\ [][SealCommitted =>
            LET copied == bearing_observations' \ bearing_observations
            IN  /\ slate' = {}
                /\ \A r \in slate :
                      \E b \in copied : /\ b.logbook_id = sqlite_sequence'
                                        /\ Triple(b) = Triple(r)
                /\ Cardinality(copied) = Cardinality(slate)
         ]_vars

\* the seal committed a row to the bearing while an append_slate of the
\* other process was between its two statements: its blob is stored, its
\* slate row is not yet
C39_Witness ==
    /\ last.op = "record_log" /\ last.ok
    /\ Cardinality(bearing_observations) = 1 /\ slate = {}
    /\ others.observer.pc = "upsert"
    /\ \E a \in artifacts : a.hash = PayloadHash(others.observer.observation)

\* in WAL mode an append_slate committed a row after the seal had read the
\* slate: the seal was answered busy and the row is on the slate
C39_StaleSnapshotWitness ==
    /\ others.journal_mode = "wal"
    /\ last.op = "record_log" /\ ~last.ok /\ last.seal_step = "insert_logbook"
    /\ others.observer.pc = "idle"
    /\ slate # {} /\ logbook = {}

\* in rollback-journal mode the append_slate that waited for the read lock
\* of the seal was answered busy
C39_BusyObserverWitness ==
    /\ others.journal_mode = "delete"
    /\ last.op = "append_slate" /\ ~last.ok
    /\ others.sealer.lock = "shared"
====
